---- MODULE Spec2Model ----
(***************************************************************************)
(* excalidraw-sync: the watch loop of extension.ts (open command, prune    *)
(* timer, sync timer, target/bucket selection) over the cache-sync part of *)
(* S3Connector (getAndSyncLocalFilePath, updateFile, toFileUri).           *)
(*                                                                         *)
(* Every `await` of the source is a step boundary: a timer callback or a   *)
(* command runs atomically up to its next await, and other callbacks may   *)
(* run while it is suspended.                                              *)
(***************************************************************************)
EXTENDS Integers, Sequences, FiniteSets, TLC

\* ---------------------------------------------------------------- bounds
MaxEvents == 6
\* commands and calls on the target registry in one behaviour
MaxOps == 2
\* object keys a bucket can hold
MaxKeys == 3
\* calls on the key space of the current bucket in one behaviour
MaxFileOps == 4

Targets == {"t1"}
Buckets == {"b1", "b2"}
Keys == {"a", "b"}

Times == 0..MaxEvents
\* invocations of the sync callback that may be suspended at once, and of the
\* open command
Cycles == {1, 2}
Opens == {1}

\* `undefined` of the source, for a target, a bucket, a Date or a missing file
Undef == 0 - 1
NoUri == <<>>
Uris == Targets \X Buckets \X Keys

VARIABLES
    currentTarget,   \* S3Connector.currentTarget
    currentBucket,   \* S3Connector.currentBucket
    fileWatchers,    \* _fileWatchers: the Map's keys in insertion order
    updateTimes,     \* _updateTimes: uri -> Date, Undef when the key is absent
    isSyncing,       \* S3FileItem.isSyncing of the item shown for a uri
    tabs,            \* uris of the open editor tabs
    localM,          \* local cache: mtime of the file at a uri, Undef when absent
    remote,          \* the store: per uri, [exists, Metadata]
    now,             \* the local clock (Date.now and the filesystem's mtime)
    cyc,             \* the invocations of the syncInterval callback
    opens,           \* the invocations of the openExcalidrawFile command
    ev,              \* history: the last step taken
    pushCount,       \* history: successful uploads of the current local version
    calls,           \* history: resolve calls and content fetches of a call pair
    events,          \* commands, timer firings, edits and clock ticks so far
    targets,         \* S3Connector.targets
    persisted,       \* globalState "s3Targets"
    secrets,         \* secretStorage: per target, its three secrets ("" = none)
    settings,        \* S3Connector.settings: target -> TargetSettings object, 0 = no entry
    heap,            \* the TargetSettings objects
    clients,         \* S3Connector.clients: target -> S3Client, NoClient = no entry
    addP,            \* the invocation of addTarget
    editP,           \* the invocation of editTarget
    verP,            \* the invocations of verifySettings
    deleting,        \* secretStorage.delete calls issued and not yet served
    removed,         \* history: targets removed, with no add of them since
    bucket,          \* the bucket of deleteBucket and the invocation working on it
    objects,         \* the current bucket as a key space: the object keys it holds
    limit,           \* the most entries the store puts in one listing response
    nodes,           \* the FileObjects that getFilesInBucket has returned
    lastOp,          \* history: the last call on the key space (body: 0 for an empty one)
    del              \* the invocation of deleteFile

\* the namespace of the current bucket and the file operations on it
fileVars == <<objects, limit, nodes, lastOp, del>>

\* the target registry and the bucket purge
regVarsButFiles == <<targets, persisted, secrets, settings, heap, clients, addP,
                     editP, verP, deleting, removed, bucket>>

regVars == <<regVarsButFiles, fileVars>>

vars == <<currentTarget, currentBucket, fileWatchers, updateTimes, isSyncing,
          tabs, localM, remote, now, cyc, opens, ev, pushCount, calls,
          events, regVars>>

\* ------------------------------------------------------------- pure parts

\* Date.prototype.toISOString of a millisecond count, and new Date(string)
ToISOString(ms) == <<"iso", ms>>
DateParse(s) == s[2]

\* S3 keeps user metadata keys in lower case (x-amz-meta-* headers)
LowerKey(k) ==
    CASE k = "lastModified" -> "lastmodified"
      [] k = "uploadedBy" -> "uploadedby"
      [] OTHER -> k

StoreMetadata(md) == { <<LowerKey(p[1]), p[2]>> : p \in md }

MetadataGet(md, k) ==
    IF \E p \in md : p[1] = k THEN (CHOOSE p \in md : p[1] = k)[2] ELSE <<>>

NoObject == [exists |-> FALSE, Metadata |-> {}]
PlainObject == [exists |-> TRUE, Metadata |-> {}]

\* the Metadata of the PutObjectCommand of updateFile
UploadMetadata(mtime) ==
    { <<"uploadedBy", <<"excalidraw-sync">> >>,
      <<"lastModified", ToISOString(mtime)>> }

UploadedObject(mtime) ==
    [exists |-> TRUE, Metadata |-> StoreMetadata(UploadMetadata(mtime))]

\* getUpdateTimestamp's result from a HeadObject response: Undef for null
UpdateTimestampOf(obj) ==
    IF MetadataGet(obj.Metadata, "lastmodified") # <<>>
    THEN DateParse(MetadataGet(obj.Metadata, "lastmodified"))
    ELSE Undef

\* `undefined` for currentTarget and currentBucket
Unselected == ""

HasSelection == currentTarget # Unselected /\ currentBucket # Unselected

\* toFileUri: storagePath/currentTarget/currentBucket/objectKey
toFileUri(key) == <<currentTarget, currentBucket, key>>

KeyOf(uri) == uri[3]

SeqToSet(s) == { s[i] : i \in 1..Len(s) }

\* Map.delete on every key of S, keeping the insertion order of the rest
RECURSIVE Without(_, _)
Without(s, S) ==
    IF s = <<>> THEN <<>>
    ELSE IF Head(s) \in S THEN Without(Tail(s), S)
         ELSE <<Head(s)>> \o Without(Tail(s), S)

\* Map.set: a new key goes last, an existing key keeps its place
MapSet(s, x) == IF x \in SeqToSet(s) THEN s ELSE Append(s, x)

\* A live Map iterator that has yielded the first idx entries of s: after the
\* keys of S are deleted it has yielded those of them that remain.
CursorAfterDelete(s, idx, S) ==
    Cardinality({ i \in 1..idx : s[i] \notin S })

IdleCycle ==
    [pc |-> "idle", idx |-> 0, uri |-> NoUri, lastUpdate |-> Undef,
     modifiedTime |-> Undef, content |-> Undef, dest |-> NoUri,
          stamp |-> Undef]

IdleOpen ==
    [pc |-> "idle", key |-> "", item |-> NoUri, uri |-> NoUri, src |-> NoUri,
     localStat |-> Undef, resolved |-> FALSE]

NoEvent == [op |-> "init", uri |-> NoUri, who |-> 0, info |-> {}]

Event(op, uri, who, info) == [op |-> op, uri |-> uri, who |-> who, info |-> info]

\* a step no property needs to tell from the others
Step == Event("step", NoUri, 0, {})

\* the objects the store holds when the session starts: a and b in the first
\* bucket, a in the others
Listed == { u \in Uris : u[3] = "a" \/ u[2] = "b1" }

\* what such an object is: uploaded by this extension, or by another tool
RemoteInit == { PlainObject, UploadedObject(1) }

\* --------------------------------------------------- target registry parts
\* target names a user may type, and the credential sets a prompt may return
Names == {"t1", "t2"}
\* the credentials stored before the session, and those a prompt returns
Versions == {"c1", "c2"}
Prompted == {"c2"}

Fields == {"accessKeyId", "secretAccessKey", "host"}
\* the order in which verifySettings looks at the fields
FieldOrder == <<"accessKeyId", "secretAccessKey", "host">>

\* a fresh TargetSettings: every field the empty string
NoCreds == [f \in Fields |-> ""]
\* an S3SettingsResult: three non-empty strings
Result(v) == [f \in Fields |-> v]

\* TargetSettings objects that may be alive at once, invocations of
\* verifySettings that may be suspended at once
ObjIds == {1, 2, 3, 4}
Verifies == {1, 2}

NoClient == <<>>
\* new S3Client({endpoint, credentials}) of lines 304-312
NewClient(rec) == [host |-> rec.host, accessKeyId |-> rec.accessKeyId,
                   secretAccessKey |-> rec.secretAccessKey]

IdleAdd == [pc |-> "idle", name |-> "", result |-> NoCreds, before |-> <<>>]
IdleEdit == [pc |-> "idle", name |-> "", result |-> NoCreds, touched |-> ""]
IdleVerify == [pc |-> "idle", target |-> "", obj |-> 0, by |-> ""]

\* targets.filter(t => t !== target)
RECURSIVE Filter(_, _)
Filter(list, name) ==
    IF list = <<>> THEN <<>>
    ELSE IF Head(list) = name THEN Filter(Tail(list), name)
         ELSE <<Head(list)>> \o Filter(Tail(list), name)

\* this.settings.get(target) as a value: no entry and a fresh object alike
\* hold no credential
CachedSettings(st, hp, n) == IF st[n] = 0 THEN NoCreds ELSE hp[st[n]]

\* the objects reachable from the settings map or from a suspended verify
Referenced(st, vp) ==
    ({ st[n] : n \in Names } \cup { vp[v].obj : v \in Verifies }) \ {0}

\* objects nothing refers to any more are fresh again
Collect(hp, st, vp) ==
    [i \in ObjIds |-> IF i \in Referenced(st, vp) THEN hp[i] ELSE NoCreds]

FreeObjs == ObjIds \ Referenced(settings, verP)
FreeVerifies == { v \in Verifies : verP[v].pc = "idle" }
Least(S) == CHOOSE x \in S : \A y \in S : x <= y

\* faulty variant: the host test of line 276 is left out
RECURSIVE NextMissingNoHost(_, _)
NextMissingNoHost(rec, i) ==
    IF i > Len(FieldOrder) - 1 THEN 0
    ELSE IF rec[FieldOrder[i]] = "" THEN i
         ELSE NextMissingNoHost(rec, i + 1)

\* the first field at position i or later that the object lacks, 0 if none:
\* the if(!settings.<field>) tests of lines 260, 268, 276
RECURSIVE NextMissing(_, _)
NextMissing(rec, i) ==
    IF i > Len(FieldOrder) THEN 0
    ELSE IF rec[FieldOrder[i]] = "" THEN i
         ELSE NextMissing(rec, i + 1)

FieldIndex(f) == CHOOSE i \in 1..Len(FieldOrder) : FieldOrder[i] = f

\* verifySettings(n) can be called: an object for line 256 and a slot for the
\* invocation are at hand
CanVerify(n) ==
    /\ FreeVerifies # {}
    /\ settings[n] = 0 => FreeObjs # {}

\* verifySettings(n) up to its first await or, with every field cached, to
\* its return (lines 254-260, 284-285): the new settings map and invocations,
\* and whether it returned true at once
VerifyEnter(n, by) ==
    LET o == IF settings[n] # 0 THEN settings[n] ELSE Least(FreeObjs)
        j == NextMissing(heap[o], 1)
        v == Least(FreeVerifies)
    IN  [st |-> [settings EXCEPT ![n] = o],
         vp |-> IF j = 0 THEN verP
                ELSE [verP EXCEPT ![v] = [pc |-> FieldOrder[j], target |-> n,
                                          obj |-> o, by |-> by]],
         verified |-> j = 0]

\* ------------------------------------------------------- namespace parts
\* Strings of object keys and node names are sequences of characters.
\* the characters that occur, in the byte order the store sorts keys by
CharOrder == <<".", "/", "a", "c", "d", "e", "i", "j", "l", "n", "o", "r", "s",
               "w", "x">>

Rank(ch) == CHOOSE i \in 1..Len(CharOrder) : CharOrder[i] = ch

\* a < b for strings, byte by byte
RECURSIVE StrLess(_, _)
StrLess(a, b) ==
    IF b = <<>> THEN FALSE
    ELSE IF a = <<>> THEN TRUE
    ELSE IF Head(a) # Head(b) THEN Rank(Head(a)) < Rank(Head(b))
    ELSE StrLess(Tail(a), Tail(b))

\* String.endsWith, String.startsWith, String.slice(n)
EndsWith(str, ch) == Len(str) > 0 /\ str[Len(str)] = ch
StartsWith(str, pre) == Len(str) >= Len(pre) /\ SubSeq(str, 1, Len(pre)) = pre
Slice(str, n) == SubSeq(str, n + 1, Len(str))

\* String.replace(/\/$/, ''): one trailing slash removed
StripSlash(str) == IF EndsWith(str, "/") THEN SubSeq(str, 1, Len(str) - 1) ELSE str

\* `undefined` for parentDir and for the parent of a root listing
NoDir == <<>>

\* new Directory(name, parentDir), new File(fileName, size, parentDir)
Directory(name, parentDir) ==
    [name |-> name, isDirectory |-> TRUE, parentDir |-> parentDir]
File(fileName, parentDir) ==
    [name |-> fileName, isDirectory |-> FALSE, parentDir |-> parentDir]

\* faulty variant: only the parent's name is put in front
PrefixedOnce(current, name) ==
    IF current.parentDir # NoDir
    THEN current.parentDir.name \o <<"/">> \o name
    ELSE name

\* the while loop of lines 674-679: every ancestor's name is put in front
RECURSIVE Prefixed(_, _)
Prefixed(current, name) ==
    IF current.parentDir # NoDir
    THEN Prefixed(current.parentDir, current.parentDir.name \o <<"/">> \o name)
    ELSE name

\* faulty variant: a directory gets no trailing slash
GetObjectKeyBare(node) == Prefixed(node, node.name)

\* FileObject.getObjectKey, lines 670-686
GetObjectKey(node) ==
    LET name == Prefixed(node, node.name)
    IN  IF node.isDirectory /\ ~EndsWith(name, "/") THEN name \o <<"/">> ELSE name

\* the store's ListObjectsV2 with Prefix and Delimiter '/': a key under the
\* prefix is a content entry, or falls under the common prefix that ends at
\* the first delimiter after the prefix
FirstSlash(str) ==
    IF \E i \in 1..Len(str) : str[i] = "/"
    THEN CHOOSE i \in 1..Len(str) : str[i] = "/" /\ \A j \in 1..(i - 1) : str[j] # "/"
    ELSE 0

EntryOf(key, prefix) ==
    LET rest == Slice(key, Len(prefix))
        i == FirstSlash(rest)
    IN  IF i = 0 THEN [kind |-> "content", key |-> key]
        ELSE [kind |-> "prefix", key |-> prefix \o SubSeq(rest, 1, i)]

Entries(objs, prefix) == { EntryOf(k, prefix) : k \in { k \in objs : StartsWith(k, prefix) } }

\* entries in key order
RECURSIVE InKeyOrder(_)
InKeyOrder(S) ==
    IF S = {} THEN <<>>
    ELSE LET first == CHOOSE e \in S : \A f \in S : f = e \/ StrLess(e.key, f.key)
         IN  <<first>> \o InKeyOrder(S \ {first})

KeysOfKind(page, kind) ==
    LET sel == SelectSeq(page, LAMBDA e : e.kind = kind)
    IN  [i \in 1..Len(sel) |-> sel[i].key]

\* the response to the command of lines 470-475: one page of at most lim
\* entries; the command carries no ContinuationToken
ListObjectsV2(objs, prefix, lim) ==
    LET all == InKeyOrder(Entries(objs, prefix))
        page == SubSeq(all, 1, IF Len(all) < lim THEN Len(all) ELSE lim)
    IN  [CommonPrefixes |-> KeysOfKind(page, "prefix"),
         Contents |-> KeysOfKind(page, "content"),
         IsTruncated |-> Len(all) > lim]

\* faulty variant: a zero-length directory name is kept
RECURSIVE DirItemsAll(_, _, _)
DirItemsAll(commonPrefixes, prefix, parent) ==
    IF commonPrefixes = <<>> THEN <<>>
    ELSE <<Directory(StripSlash(Slice(Head(commonPrefixes), Len(prefix))), parent)>>
            \o DirItemsAll(Tail(commonPrefixes), prefix, parent)

\* the loop of lines 478-487
RECURSIVE DirItems(_, _, _)
DirItems(commonPrefixes, prefix, parent) ==
    IF commonPrefixes = <<>> THEN <<>>
    ELSE LET dirName == StripSlash(Slice(Head(commonPrefixes), Len(prefix)))
             rest == DirItems(Tail(commonPrefixes), prefix, parent)
         IN  IF Len(dirName) = 0 THEN rest
             ELSE <<Directory(dirName, parent)>> \o rest

\* faulty variant: the placeholder of the listed directory is not skipped
RECURSIVE FileItemsAll(_, _, _)
FileItemsAll(contents, prefix, parent) ==
    IF contents = <<>> THEN <<>>
    ELSE <<File(Slice(Head(contents), Len(prefix)), parent)>>
            \o FileItemsAll(Tail(contents), prefix, parent)

\* the loop of lines 489-498
RECURSIVE FileItems(_, _, _)
FileItems(contents, prefix, parent) ==
    IF contents = <<>> THEN <<>>
    ELSE LET key == Head(contents)
             fileName == Slice(key, Len(prefix))
             rest == FileItems(Tail(contents), prefix, parent)
         IN  IF key # <<>> /\ key # prefix /\ ~EndsWith(fileName, "/")
             THEN <<File(fileName, parent)>> \o rest
             ELSE rest

\* line 469
PrefixOf(parent) == IF parent # NoDir THEN GetObjectKey(parent) ELSE <<>>

\* getFilesInBucket(parent) with a target and a bucket selected, lines
\* 468-499, on the store's response
GetFilesInBucket(objs, parent, lim) ==
    LET prefix == PrefixOf(parent)
        response == ListObjectsV2(objs, prefix, lim)
    IN  DirItems(response.CommonPrefixes, prefix, parent)
            \o FileItems(response.Contents, prefix, parent)

\* names a user types for a folder (any non-empty text, line 113) and the
\* file name createExcalidrawFile passes on (lines 138-140)
Docs == <<"d", "o", "c", "s">>
FolderNames == {Docs, <<"x">>, <<"x", "/">>}
AFile == <<"a", ".", "e", "x", "c", "a", "l", "i", "d", "r", "a", "w", ".", "j", "s", "o", "n">>
FileNames == {AFile}

\* keys another client may have put into the bucket
ForeignKeys ==
    { Docs \o <<"/">>,
      Docs \o <<"/">> \o AFile,
      Docs \o <<"/", "x", "/">> \o AFile,
      Docs \o <<"/", "/">>,
      <<"x">>,
      AFile }

\* the store's page limit
Limits == {2, 3}

\* held: the keys the bucket held before the first call; puts: the uploads
\* since, as <<operation, node>>
NoOp == [op |-> "none", node |-> NoDir, key |-> <<>>, sent |-> <<>>, body |-> 0,
         items |-> <<>>, truncated |-> FALSE, held |-> {}, puts |-> <<>>]

IdleDel == [pc |-> "idle", key |-> "", dest |-> NoUri, local |-> NoUri,
            remoteDone |-> FALSE, localTouched |-> FALSE]

\* no file operation has run: an empty key space
FilesIdle ==
    /\ objects = {}
    /\ limit = 2
    /\ nodes = {}
    /\ lastOp = NoOp
    /\ del = IdleDel

\* object keys, in the store's listing order; 0 stands for no continuation
\* token
ObjectKeys == 1..MaxKeys

\* the most keys the store returns in one ListObjectsV2 response
PageSizes == {1, 2}

\* the keys of S in listing order
RECURSIVE Ascending(_)
Ascending(S) ==
    IF S = {} THEN <<>> ELSE <<Least(S)>> \o Ascending(S \ {Least(S)})

\* listResponse.Contents of line 359 for ContinuationToken token: the first
\* size keys after the token
PageOf(keys, token, size) ==
    LET rest == Ascending({k \in keys : k > token})
    IN  SubSeq(rest, 1, IF Len(rest) < size THEN Len(rest) ELSE size)

\* faulty variant: NextContinuationToken is never read
NoNextToken(keys, token, size) == 0

\* listResponse.NextContinuationToken of line 375: set when the listing was
\* truncated, and then the next listing starts after the last key returned
NextTokenOf(keys, token, size) ==
    LET page == PageOf(keys, token, size)
    IN  IF Cardinality({k \in keys : k > token}) > size
        THEN page[Len(page)] ELSE 0

\* the bucket of deleteBucket and the invocation working on it: the store's
\* side (exists, keys, size), the invocation's locals (pc, token, page, next,
\* nextToken) and what it has issued so far (n keys at the call, deleted and
\* dropped count the DeleteObject and DeleteBucket commands sent, early
\* records a DeleteObject sent after a DeleteBucket)
IdleBucket ==
    [pc |-> "idle", exists |-> FALSE, keys |-> {}, size |-> 1, n |-> 0,
     token |-> 0, page |-> <<>>, next |-> 0, nextToken |-> 0, deleted |-> 0,
     dropped |-> 0, early |-> FALSE, failedAt |-> "", retry |-> FALSE,
     held |-> {}]

\* the registry at rest with the targets of list configured: nothing cached,
\* no invocation running
RegistryIdle(list) ==
    /\ targets = list
    /\ persisted = list
    /\ secrets = [n \in Names |->
          IF n \in { list[i] : i \in 1..Len(list) } THEN Result("c1") ELSE NoCreds]
    /\ settings = [n \in Names |-> 0]
    /\ heap = [i \in ObjIds |-> NoCreds]
    /\ clients = [n \in Names |-> NoClient]
    /\ addP = IdleAdd
    /\ editP = IdleEdit
    /\ verP = [v \in Verifies |-> IdleVerify]
    /\ deleting = <<>>
    /\ removed = {}
    /\ bucket = IdleBucket
    /\ FilesIdle

\* ------------------------------------------------------------------ Init
\* activate(): empty maps, the first persisted target (if any) is current,
\* no bucket is selected, the local cache holds nothing yet.
Init ==
    /\ currentTarget \in Targets \cup {Unselected}
    /\ currentBucket = Unselected
    /\ fileWatchers = <<>>
    /\ updateTimes = [u \in Uris |-> Undef]
    /\ isSyncing = [u \in Uris |-> FALSE]
    /\ tabs = {}
    /\ localM = [u \in Uris |-> Undef]
    /\ \E r \in RemoteInit :
          remote = [u \in Uris |-> IF u \in Listed THEN r ELSE NoObject]
    /\ now = 0
    /\ cyc = [c \in Cycles |-> IdleCycle]
    /\ opens = [o \in Opens |-> IdleOpen]
    /\ ev = NoEvent
    /\ pushCount = [u \in Uris |-> 0]
    /\ calls = [n |-> 0, fetches |-> 0]
    /\ events = 0
    /\ RegistryIdle(IF currentTarget = Unselected THEN <<>> ELSE <<currentTarget>>)

\* ----------------------------------------------------------- environment
\* one more command, timer firing, edit or clock tick, within the bound
Event1 == events < MaxEvents /\ events' = events + 1

Tick ==
    /\ Event1
    /\ UNCHANGED <<calls, regVars>>
    /\ now' = now + 1
    /\ ev' = Step
    /\ UNCHANGED <<currentTarget, currentBucket, fileWatchers, updateTimes,
                   isSyncing, tabs, localM, remote, cyc, opens, pushCount>>

\* the editor saves the diagram shown in an open tab
LocalEdit(u) ==
    /\ Event1
    /\ UNCHANGED <<calls, regVars>>
    /\ u \in tabs
    /\ localM[u] # Undef
    /\ localM' = [localM EXCEPT ![u] = now]
    /\ pushCount' = [pushCount EXCEPT ![u] = 0]
    /\ ev' = Step
    /\ UNCHANGED <<currentTarget, currentBucket, fileWatchers, updateTimes,
                   isSyncing, tabs, remote, now, cyc, opens>>

\* the user closes an editor tab
CloseTab(u) ==
    /\ Event1
    /\ UNCHANGED <<calls, regVars>>
    /\ u \in tabs
    /\ tabs' = tabs \ {u}
    /\ ev' = Step
    /\ UNCHANGED <<currentTarget, currentBucket, fileWatchers, updateTimes,
                   isSyncing, localM, remote, now, cyc, opens, pushCount>>

\* ------------------------------------------------- selection, closeAllTabs
\* the live iterators of the suspended sync cycles after the keys of S are
\* deleted from _fileWatchers
CyclesAfterDelete(S) ==
    [c \in Cycles |->
        IF cyc[c].pc = "idle" THEN cyc[c]
        ELSE [cyc[c] EXCEPT !.idx = CursorAfterDelete(fileWatchers, @, S)]]

\* closeAllTabs: every tab whose uri is watched is closed and its watcher
\* deleted; _updateTimes is not touched.
closeAllTabs ==
    LET closed == tabs \cap SeqToSet(fileWatchers) IN
    /\ tabs' = tabs \ closed
    /\ fileWatchers' = Without(fileWatchers, closed)
    /\ cyc' = CyclesAfterDelete(closed)

\* excalidraw-sync.selectS3Target: setTarget, closeAllTabs
SelectTarget(t) ==
    /\ Event1
    /\ UNCHANGED <<calls, regVars>>
    /\ currentTarget' = t
    /\ currentBucket' = Unselected
    /\ closeAllTabs
    /\ ev' = Event("select", NoUri, 0, SeqToSet(fileWatchers))
    /\ UNCHANGED <<updateTimes, isSyncing, localM, remote, now, opens, pushCount>>

\* excalidraw-sync.selectS3Bucket: selectBucket, closeAllTabs
SelectBucket(b) ==
    /\ Event1
    /\ UNCHANGED <<calls, regVars>>
    /\ currentTarget # Unselected
    /\ currentBucket' = b
    /\ closeAllTabs
    /\ ev' = Event("select", NoUri, 0, SeqToSet(fileWatchers))
    /\ UNCHANGED <<currentTarget, updateTimes, isSyncing, localM, remote, now,
                   opens, pushCount>>

\* ------------------------------------------------------------ prune timer
\* faulty variant: the find of line 229 never matches: every watch is deleted
PruneSetAll == SeqToSet(fileWatchers)

\* the watched uris the prune callback deletes: those with no open tab
PruneSet == { u \in SeqToSet(fileWatchers) : u \notin tabs }

\* setInterval(..., 5000): synchronous, deletes from both maps
PruneCycle ==
    /\ Event1
    /\ UNCHANGED <<calls, regVars>>
    /\ fileWatchers' = Without(fileWatchers, PruneSet)
    /\ updateTimes' = [u \in Uris |-> IF u \in PruneSet THEN Undef ELSE updateTimes[u]]
    /\ cyc' = CyclesAfterDelete(PruneSet)
    /\ ev' = Event("prune", NoUri, 0, PruneSet)
    /\ UNCHANGED <<currentTarget, currentBucket, isSyncing, tabs, localM, remote,
                   now, opens, pushCount>>

\* ------------------------------------------------------------- sync timer
\* the for..of loop of the syncInterval callback moving to its next entry:
\* lines 239-246 up to the await of fs.stat, or the end of the callback
Advance(rec, watchers, times) ==
    IF rec.idx < Len(watchers)
    THEN [pc |-> "stat", idx |-> rec.idx + 1, uri |-> watchers[rec.idx + 1],
          lastUpdate |-> times[watchers[rec.idx + 1]],
          modifiedTime |-> Undef, content |-> Undef, dest |-> NoUri,
          stamp |-> Undef]
    ELSE IdleCycle

\* faulty variant: the comparison of line 249 with >= for >
ShouldPushOrEqual(lastUpdate, modifiedTime) ==
    lastUpdate # Undef /\ modifiedTime >= lastUpdate

\* the comparison of line 249: lastUpdate && modifiedTime > lastUpdate
ShouldPush(lastUpdate, modifiedTime) ==
    lastUpdate # Undef /\ modifiedTime > lastUpdate

\* setInterval(async ..., 1000) fires: a new invocation starts, whether or
\* not an earlier one is still suspended
SyncStart(c) ==
    /\ Event1
    /\ UNCHANGED <<calls, regVars>>
    /\ cyc[c].pc = "idle"
    /\ \A d \in Cycles : d < c => cyc[d].pc # "idle"
    /\ cyc' = [cyc EXCEPT ![c] = Advance(IdleCycle, fileWatchers, updateTimes)]
    /\ ev' = Step
    /\ UNCHANGED <<currentTarget, currentBucket, fileWatchers, updateTimes,
                   isSyncing, tabs, localM, remote, now, opens, pushCount>>

\* fs.stat of line 246 returns; lines 247-252, or on to the next entry
SyncStat(c) ==
    /\ UNCHANGED <<events, calls, regVars>>
    /\ cyc[c].pc = "stat"
    /\ localM[cyc[c].uri] # Undef
    /\ IF ShouldPush(cyc[c].lastUpdate, localM[cyc[c].uri])
       THEN /\ isSyncing' = [isSyncing EXCEPT ![cyc[c].uri] = TRUE]
            /\ cyc' = [cyc EXCEPT ![c].pc = "read",
                                  ![c].modifiedTime = localM[cyc[c].uri]]
            /\ ev' = Step
       ELSE /\ isSyncing' = isSyncing
            /\ cyc' = [cyc EXCEPT ![c] = Advance(cyc[c], fileWatchers, updateTimes)]
            /\ ev' = Event("skip", cyc[c].uri, c, {})
    /\ UNCHANGED <<currentTarget, currentBucket, fileWatchers, updateTimes,
                   tabs, localM, remote, now, opens, pushCount>>

\* lines 254-257 and the loop's next iteration, after updateFile returned
AfterUpdateFile(c) ==
    /\ isSyncing' = [isSyncing EXCEPT ![cyc[c].uri] = FALSE]
    /\ updateTimes' = [updateTimes EXCEPT ![cyc[c].uri] = cyc[c].modifiedTime]
    /\ cyc' = [cyc EXCEPT ![c] = Advance(cyc[c], fileWatchers, updateTimes')]

\* faulty variant: updateFile throws when nothing is selected
SyncReadThrows(c) ==
    /\ UNCHANGED <<events, calls, regVars>>
    /\ cyc[c].pc = "read"
    /\ localM[cyc[c].uri] # Undef
    /\ IF HasSelection
       THEN /\ cyc' = [cyc EXCEPT ![c].pc = "ustat",
                                  ![c].content = localM[cyc[c].uri],
                                  ![c].dest = toFileUri(KeyOf(cyc[c].uri))]
            /\ ev' = Step
       ELSE /\ cyc' = [cyc EXCEPT ![c] = IdleCycle]
            /\ ev' = Event("sync_fail", cyc[c].uri, c, {"push"})
    /\ UNCHANGED <<currentTarget, currentBucket, fileWatchers, tabs, localM,
                   remote, now, opens, pushCount, isSyncing, updateTimes>>

\* fs.readFile of line 253 returns and updateFile starts: lines 588-594.
\* content is the version of the file that was read, named by its
\* modification time.
SyncRead(c) ==
    /\ UNCHANGED <<events, calls, regVars>>
    /\ cyc[c].pc = "read"
    /\ localM[cyc[c].uri] # Undef
    /\ IF HasSelection
       THEN /\ cyc' = [cyc EXCEPT ![c].pc = "ustat",
                                  ![c].content = localM[cyc[c].uri],
                                  ![c].dest = toFileUri(KeyOf(cyc[c].uri))]
            /\ ev' = Step
            /\ UNCHANGED <<isSyncing, updateTimes>>
       ELSE /\ AfterUpdateFile(c)
            /\ ev' = Event("push_noop", cyc[c].uri, c, {})
    /\ UNCHANGED <<currentTarget, currentBucket, fileWatchers, tabs, localM,
                   remote, now, opens, pushCount>>

\* fs.stat of line 594 returns; lines 595-608 build and send the PutObject
SyncUStat(c) ==
    /\ UNCHANGED <<events, calls, regVars>>
    /\ cyc[c].pc = "ustat"
    /\ localM[cyc[c].dest] # Undef
    /\ currentBucket # Unselected
    /\ cyc' = [cyc EXCEPT ![c].pc = "send",
                          ![c].dest = toFileUri(KeyOf(cyc[c].uri)),
                          ![c].stamp = localM[cyc[c].dest]]
    /\ ev' = Step
    /\ UNCHANGED <<currentTarget, currentBucket, fileWatchers, updateTimes,
                   isSyncing, tabs, localM, remote, now, opens, pushCount>>

\* client.send of line 608 succeeds; lines 254-257
SyncSend(c) ==
    /\ UNCHANGED <<events, calls, regVars>>
    /\ cyc[c].pc = "send"
    /\ remote' = [remote EXCEPT ![cyc[c].dest] = UploadedObject(cyc[c].stamp)]
    /\ AfterUpdateFile(c)
    /\ pushCount' = [pushCount EXCEPT ![cyc[c].uri] =
          IF cyc[c].dest = cyc[c].uri /\ cyc[c].modifiedTime = localM[cyc[c].uri]
             /\ @ < 2
          THEN @ + 1 ELSE @]
    /\ ev' = Event("pushed", cyc[c].uri, c, {cyc[c].modifiedTime})
    /\ UNCHANGED <<currentTarget, currentBucket, fileWatchers, tabs, localM,
                   now, opens>>

\* faulty variant: the timestamp is recorded although the push failed
SyncFailRecords(c) ==
    /\ UNCHANGED <<events, calls, regVars>>
    /\ cyc[c].pc \in {"stat", "read", "ustat", "send"}
    /\ cyc' = [cyc EXCEPT ![c] = IdleCycle]
    /\ updateTimes' = [updateTimes EXCEPT ![cyc[c].uri] =
          IF cyc[c].pc = "stat" THEN @ ELSE cyc[c].modifiedTime]
    /\ ev' = Event("sync_fail", cyc[c].uri, c, {cyc[c].pc})
    /\ UNCHANGED <<currentTarget, currentBucket, fileWatchers, isSyncing, tabs,
                   localM, remote, now, opens, pushCount>>

\* an awaited call of the callback rejects (fs.stat, fs.readFile or
\* client.send): nothing catches it, the invocation ends there
SyncFail(c) ==
    /\ UNCHANGED <<events, calls, regVars>>
    /\ cyc[c].pc \in {"stat", "read", "ustat", "send"}
    /\ cyc' = [cyc EXCEPT ![c] = IdleCycle]
    /\ ev' = Event("sync_fail", cyc[c].uri, c, {cyc[c].pc})
    /\ UNCHANGED <<currentTarget, currentBucket, fileWatchers, updateTimes,
                   isSyncing, tabs, localM, remote, now, opens, pushCount>>

\* ----------------------------------------------------------- open command
\* a throw inside the command: the rest of the handler (lines 205-213) is
\* skipped
OpenThrows(o, at) ==
    /\ opens' = [opens EXCEPT ![o] = IdleOpen]
    /\ ev' = Event("open_fail", opens[o].item, o, {at})
    /\ UNCHANGED isSyncing

\* getAndSyncLocalFilePath returned: lines 205-207, up to the await of
\* vscode.openWith
OpenResolved(o) ==
    /\ isSyncing' = [isSyncing EXCEPT ![opens[o].item] = FALSE]
    /\ opens' = [opens EXCEPT ![o].pc = "openWith", ![o].resolved = TRUE]
    /\ ev' = Step

\* the command starts for the tree item of key k: lines 200-204 and
\* getAndSyncLocalFilePath up to the fs.stat of fileExists (line 645)
OpenStartStep(o, k) ==
    /\ Event1
    /\ opens[o].pc = "idle"
    /\ HasSelection
    /\ remote[toFileUri(k)].exists
    /\ isSyncing' = [isSyncing EXCEPT ![toFileUri(k)] = TRUE]
    /\ opens' = [opens EXCEPT ![o] =
          [IdleOpen EXCEPT !.pc = "exists", !.key = k, !.item = toFileUri(k),
                           !.uri = toFileUri(k)]]
    /\ ev' = Step
    /\ UNCHANGED <<currentTarget, currentBucket, fileWatchers, updateTimes,
                   tabs, localM, remote, now, cyc, pushCount>>

OpenStart(o, k) == OpenStartStep(o, k) /\ UNCHANGED <<calls, regVars>>

\* fileExists answered `exists`; lines 511-518
AfterFileExists(o, exists) ==
    /\ IF ~HasSelection
       THEN OpenThrows(o, "toFileUri")
       ELSE /\ opens' = [opens EXCEPT
                  ![o].pc = IF exists THEN "stat" ELSE "get1",
                  ![o].uri = toFileUri(opens[o].key),
                  ![o].src = IF exists THEN NoUri ELSE toFileUri(opens[o].key)]
            /\ ev' = Step
            /\ UNCHANGED isSyncing
    /\ UNCHANGED <<currentTarget, currentBucket, fileWatchers, updateTimes,
                   tabs, localM, remote, now, cyc, pushCount>>

\* the fs.stat of fileExists settles: found, or rejected because the file
\* is absent
OpenExists(o) ==
    /\ UNCHANGED <<events, calls, regVars>>
    /\ opens[o].pc = "exists"
    /\ AfterFileExists(o, localM[opens[o].uri] # Undef)

\* the fs.stat of fileExists rejects for a file that is there (an I/O
\* error): the catch of line 647 answers false all the same
OpenExistsError(o) ==
    /\ UNCHANGED <<events, calls, regVars>>
    /\ opens[o].pc = "exists"
    /\ localM[opens[o].uri] # Undef
    /\ AfterFileExists(o, FALSE)

\* getFileFromS3: the GetObject of line 559 answers with the object
OpenGetStep(o) ==
    /\ UNCHANGED events
    /\ opens[o].pc \in {"get1", "get2"}
    /\ remote[opens[o].src].exists
    /\ opens' = [opens EXCEPT ![o].pc = IF @ = "get1" THEN "write1" ELSE "write2"]
    /\ ev' = Step
    /\ UNCHANGED <<currentTarget, currentBucket, fileWatchers, updateTimes,
                   isSyncing, tabs, localM, remote, now, cyc, pushCount>>

OpenGet(o) == OpenGetStep(o) /\ UNCHANGED <<calls, regVars>>

\* fs.writeFile of line 514 or 522 returns; the function returns fileUri
OpenWrite(o) ==
    /\ UNCHANGED <<events, calls, regVars>>
    /\ opens[o].pc \in {"write1", "write2"}
    /\ localM' = [localM EXCEPT ![opens[o].uri] = now]
    /\ pushCount' = [pushCount EXCEPT ![opens[o].uri] = 0]
    /\ OpenResolved(o)
    /\ UNCHANGED <<currentTarget, currentBucket, fileWatchers, updateTimes,
                   tabs, remote, now, cyc>>

\* fs.stat of line 518 returns; getUpdateTimestamp up to its HeadObject
OpenStat(o) ==
    /\ UNCHANGED <<events, calls, regVars>>
    /\ opens[o].pc = "stat"
    /\ localM[opens[o].uri] # Undef
    /\ IF ~HasSelection
       THEN OpenThrows(o, "getUpdateTimestamp")
       ELSE /\ opens' = [opens EXCEPT ![o].pc = "head",
                                      ![o].src = toFileUri(opens[o].key),
                                      ![o].localStat = localM[opens[o].uri]]
            /\ ev' = Step
            /\ UNCHANGED isSyncing
    /\ UNCHANGED <<currentTarget, currentBucket, fileWatchers, updateTimes,
                   tabs, localM, remote, now, cyc, pushCount>>

\* faulty variant: the comparison of line 520 with <= for <
RemoteIsNewerOrEqual(localMtime, s3Timestamp) ==
    s3Timestamp # Undef /\ localMtime <= s3Timestamp

\* the comparison of line 520: s3Timestamp && localStat.mtime < s3Timestamp
RemoteIsNewer(localMtime, s3Timestamp) ==
    s3Timestamp # Undef /\ localMtime < s3Timestamp

\* the HeadObject of line 539 answers; lines 541-545 and 520-525
OpenHead(o) ==
    /\ UNCHANGED <<events, calls, regVars>>
    /\ opens[o].pc = "head"
    /\ remote[opens[o].src].exists
    /\ IF RemoteIsNewer(opens[o].localStat, UpdateTimestampOf(remote[opens[o].src]))
       THEN IF ~HasSelection
            THEN OpenThrows(o, "getFileFromS3")
            ELSE /\ opens' = [opens EXCEPT ![o].pc = "get2",
                                           ![o].src = toFileUri(opens[o].key)]
                 /\ ev' = Step
                 /\ UNCHANGED isSyncing
       ELSE OpenResolved(o)
    /\ UNCHANGED <<currentTarget, currentBucket, fileWatchers, updateTimes,
                   tabs, localM, remote, now, cyc, pushCount>>

\* faulty variant: line 213 records the file's modification time, not new Date()
OpenWithMtime(o) ==
    /\ UNCHANGED <<events, calls, regVars>>
    /\ opens[o].pc = "openWith"
    /\ tabs' = tabs \cup {opens[o].uri}
    /\ fileWatchers' = MapSet(fileWatchers, opens[o].uri)
    /\ updateTimes' = [updateTimes EXCEPT ![opens[o].uri] = localM[opens[o].uri]]
    /\ opens' = [opens EXCEPT ![o] = IdleOpen]
    /\ ev' = Event("registered", opens[o].uri, o, {})
    /\ UNCHANGED <<currentTarget, currentBucket, isSyncing, localM, remote,
                   now, cyc, pushCount>>

\* vscode.openWith returns; lines 212-213 register the watch
OpenWith(o) ==
    /\ UNCHANGED <<events, calls, regVars>>
    /\ opens[o].pc = "openWith"
    /\ tabs' = tabs \cup {opens[o].uri}
    /\ fileWatchers' = MapSet(fileWatchers, opens[o].uri)
    /\ updateTimes' = [updateTimes EXCEPT ![opens[o].uri] = now]
    /\ opens' = [opens EXCEPT ![o] = IdleOpen]
    /\ ev' = Event("registered", opens[o].uri, o, {})
    /\ UNCHANGED <<currentTarget, currentBucket, isSyncing, localM, remote,
                   now, cyc, pushCount>>

\* an awaited call of the command rejects (the store or the filesystem
\* fails, or vscode.openWith does): nothing catches it
\* faulty variant: the local copy is written before the selection is looked at
OpenUnselectedWrites(o, u) ==
    /\ Event1
    /\ UNCHANGED <<calls, regVars>>
    /\ opens[o].pc = "idle"
    /\ ~HasSelection
    /\ remote[u].exists
    /\ isSyncing' = [isSyncing EXCEPT ![u] = TRUE]
    /\ localM' = [localM EXCEPT ![u] = now]
    /\ ev' = Event("open_fail", u, o, {"selection"})
    /\ UNCHANGED <<currentTarget, currentBucket, fileWatchers, updateTimes,
                   tabs, remote, now, cyc, opens, pushCount>>

\* The open command on a tree item while no target or no bucket is selected:
\* lines 200-203 mark the item as syncing, getAndSyncLocalFilePath throws at
\* lines 505-508 and the handler ends there, before lines 205-214.
OpenUnselected(o, u) ==
    /\ Event1
    /\ UNCHANGED <<calls, regVars>>
    /\ opens[o].pc = "idle"
    /\ ~HasSelection
    /\ remote[u].exists
    /\ isSyncing' = [isSyncing EXCEPT ![u] = TRUE]
    /\ ev' = Event("open_fail", u, o, {"selection"})
    /\ UNCHANGED <<currentTarget, currentBucket, fileWatchers, updateTimes,
                   tabs, localM, remote, now, cyc, opens, pushCount>>

OpenFail(o) ==
    /\ UNCHANGED <<events, calls, regVars>>
    /\ opens[o].pc \in {"get1", "get2", "write1", "write2", "stat", "head",
                        "openWith"}
    /\ OpenThrows(o, opens[o].pc)
    /\ UNCHANGED <<currentTarget, currentBucket, fileWatchers, updateTimes,
                   tabs, localM, remote, now, cyc, pushCount>>

\* ------------------------------------------------------------------ Spec
Next ==
    \/ Tick
    \/ \E u \in Uris : LocalEdit(u)
    \/ \E u \in Uris : CloseTab(u)
    \/ \E t \in Targets : SelectTarget(t)
    \/ \E b \in Buckets : SelectBucket(b)
    \/ PruneCycle
    \/ \E c \in Cycles : SyncStart(c)
    \/ \E c \in Cycles : SyncStat(c)
    \/ \E c \in Cycles : SyncRead(c)
    \/ \E c \in Cycles : SyncUStat(c)
    \/ \E c \in Cycles : SyncSend(c)
    \/ \E c \in Cycles : SyncFail(c)
    \/ \E o \in Opens, k \in Keys : OpenStart(o, k)
    \/ \E o \in Opens, u \in Uris : OpenUnselected(o, u)
    \/ \E o \in Opens : OpenExists(o)
    \/ \E o \in Opens : OpenExistsError(o)
    \/ \E o \in Opens : OpenGet(o)
    \/ \E o \in Opens : OpenWrite(o)
    \/ \E o \in Opens : OpenStat(o)
    \/ \E o \in Opens : OpenHead(o)
    \/ \E o \in Opens : OpenWith(o)
    \/ \E o \in Opens : OpenFail(o)

Spec == Init /\ [][Next]_vars

\* ------------------------------------------------- resolve called twice
\* getAndSyncLocalFilePath called twice in succession on one file (through
\* the open command), with a store and a filesystem that do not fail and a
\* remote object that nothing changes. The local copy is absent or was
\* written in the past; the remote object was uploaded by any client, so its
\* lastmodified metadata is any time.
ResolveUri == <<"t1", "b1", "a">>

InitResolve ==
    /\ currentTarget = "t1"
    /\ currentBucket = "b1"
    /\ fileWatchers = <<>>
    /\ updateTimes = [u \in Uris |-> Undef]
    /\ isSyncing = [u \in Uris |-> FALSE]
    /\ tabs = {}
    /\ now \in Times
    /\ \E m \in {Undef} \cup 0..now :
          localM = [u \in Uris |-> IF u = ResolveUri THEN m ELSE Undef]
    /\ \E r \in {PlainObject} \cup { UploadedObject(t) : t \in Times } :
          remote = [u \in Uris |-> IF u = ResolveUri THEN r ELSE NoObject]
    /\ cyc = [c \in Cycles |-> IdleCycle]
    /\ opens = [o \in Opens |-> IdleOpen]
    /\ ev = NoEvent
    /\ pushCount = [u \in Uris |-> 0]
    /\ calls = [n |-> 0, fetches |-> 0]
    /\ events = 0
    /\ RegistryIdle(<<currentTarget>>)

ResolveCall ==
    /\ calls.n < 2
    /\ OpenStartStep(1, KeyOf(ResolveUri))
    /\ calls' = [calls EXCEPT !.n = @ + 1]
    /\ UNCHANGED regVars

ResolveFetch ==
    /\ OpenGetStep(1)
    /\ calls' = [calls EXCEPT !.fetches = @ + 1]
    /\ UNCHANGED regVars

NextResolve ==
    \/ ResolveCall
    \/ ResolveFetch
    \/ OpenExists(1)
    \/ OpenWrite(1)
    \/ OpenStat(1)
    \/ OpenHead(1)
    \/ OpenWith(1)
    \/ Tick

SpecResolve == InitResolve /\ [][NextResolve]_vars

\* ------------------------------------------------ push of a watched file
\* A file of the selected bucket is open in an editor and watched; it was
\* registered at time 0 and saved by the editor at time 1, so the next sync
\* cycle has something to push. The store holds the version uploaded before.
PushUri == <<"t1", "b1", "a">>

InitPush ==
    /\ currentTarget = "t1"
    /\ currentBucket = "b1"
    /\ fileWatchers = <<PushUri>>
    /\ updateTimes = [u \in Uris |-> IF u = PushUri THEN 0 ELSE Undef]
    /\ isSyncing = [u \in Uris |-> FALSE]
    /\ tabs = {PushUri}
    /\ now = 1
    /\ localM = [u \in Uris |-> IF u = PushUri THEN 1 ELSE Undef]
    /\ \E r \in RemoteInit :
          remote = [u \in Uris |-> IF u \in Listed THEN r ELSE NoObject]
    /\ cyc = [c \in Cycles |-> IdleCycle]
    /\ opens = [o \in Opens |-> IdleOpen]
    /\ ev = NoEvent
    /\ pushCount = [u \in Uris |-> 0]
    /\ calls = [n |-> 0, fetches |-> 0]
    /\ events = 0
    /\ RegistryIdle(<<currentTarget>>)

NextPush ==
    \/ Tick
    \/ \E u \in Uris : LocalEdit(u)
    \/ \E u \in Uris : CloseTab(u)
    \/ \E t \in Targets : SelectTarget(t)
    \/ \E b \in Buckets : SelectBucket(b)
    \/ PruneCycle
    \/ \E c \in Cycles : SyncStart(c)
    \/ \E c \in Cycles : SyncStat(c)
    \/ \E c \in Cycles : SyncRead(c)
    \/ \E c \in Cycles : SyncUStat(c)
    \/ \E c \in Cycles : SyncSend(c)
    \/ \E c \in Cycles : SyncFail(c)

SpecPush == InitPush /\ [][NextPush]_vars

\* ------------------------------------------- timers that keep on firing
\* the count of events bounds the specifications above; here it starts
\* anew, so that the timers and the user never run out of steps
Rearm ==
    /\ events = MaxEvents
    /\ events' = 0
    /\ UNCHANGED <<currentTarget, currentBucket, fileWatchers, updateTimes,
                   isSyncing, tabs, localM, remote, now, cyc, opens, ev,
                   pushCount, calls, regVars>>

\* updateFile's toFileUri of line 593 throws when the selection has gone
\* between fs.readFile and fs.stat; no other awaited call is rejected here
SyncUnselected(c) ==
    /\ cyc[c].pc = "ustat"
    /\ ~HasSelection
    /\ SyncFail(c)

\* the session of InitPush with every store and filesystem call succeeding
NextLive ==
    \/ \E u \in Uris : LocalEdit(u)
    \/ \E u \in Uris : CloseTab(u)
    \/ \E t \in Targets : SelectTarget(t)
    \/ \E b \in Buckets : SelectBucket(b)
    \/ PruneCycle
    \/ \E c \in Cycles : SyncStart(c)
    \/ \E c \in Cycles : SyncStat(c)
    \/ \E c \in Cycles : SyncRead(c)
    \/ \E c \in Cycles : SyncUStat(c)
    \/ \E c \in Cycles : SyncSend(c)
    \/ \E c \in Cycles : SyncUnselected(c)
    \/ Rearm

\* both setInterval timers fire again and again (lines 217 and 238), and
\* every call a callback awaits is answered
LiveFairness ==
    /\ WF_vars(Rearm)
    /\ WF_vars(PruneCycle)
    /\ \A c \in Cycles :
          /\ WF_vars(SyncStart(c))
          /\ WF_vars(SyncStat(c))
          /\ WF_vars(SyncRead(c))
          /\ WF_vars(SyncUStat(c))
          /\ WF_vars(SyncSend(c))
          /\ WF_vars(SyncUnselected(c))

SpecLive == InitPush /\ [][NextLive]_vars /\ LiveFairness

\* ------------------------------------------------------- target registry
\* the watch loop's part of the state, which the registry does not touch
loopVars == <<fileWatchers, updateTimes, isSyncing, tabs, localM, remote, now,
              cyc, opens, pushCount, calls>>

\* one more command or call on the registry, within the bound
Op1 == events < MaxOps /\ events' = events + 1

\* the state after the constructor (lines 230-250) for a persisted list:
\* the first target is current and a verifySettings is suspended at its
\* first secretStorage.get for every target
InitTargets ==
    /\ \E list \in {<<>>, <<"t1">>, <<"t1", "t2">>} :
          /\ targets = list
          /\ persisted = list
          /\ currentTarget = IF Len(list) > 0 THEN list[1] ELSE Unselected
          /\ \E sec \in [Names -> {NoCreds, Result("c1")}] :
                /\ \A n \in Names : sec[n] # NoCreds => \E i \in 1..Len(list) : list[i] = n
                /\ secrets = sec
          /\ settings = [n \in Names |->
                IF \E i \in 1..Len(list) : list[i] = n
                THEN CHOOSE i \in 1..Len(list) : list[i] = n ELSE 0]
          /\ verP = [v \in Verifies |->
                IF v <= Len(list)
                THEN [pc |-> FieldOrder[1], target |-> list[v], obj |-> v,
                      by |-> "init"]
                ELSE IdleVerify]
    /\ heap = [i \in ObjIds |-> NoCreds]
    /\ clients = [n \in Names |-> NoClient]
    /\ addP = IdleAdd
    /\ editP = IdleEdit
    /\ deleting = <<>>
    /\ removed = {}
    /\ bucket = IdleBucket
    /\ FilesIdle
    /\ currentBucket = Unselected
    /\ fileWatchers = <<>>
    /\ updateTimes = [u \in Uris |-> Undef]
    /\ isSyncing = [u \in Uris |-> FALSE]
    /\ tabs = {}
    /\ localM = [u \in Uris |-> Undef]
    /\ remote = [u \in Uris |-> NoObject]
    /\ now = 0
    /\ cyc = [c \in Cycles |-> IdleCycle]
    /\ opens = [o \in Opens |-> IdleOpen]
    /\ ev = NoEvent
    /\ pushCount = [u \in Uris |-> 0]
    /\ calls = [n |-> 0, fetches |-> 0]
    /\ events = 0

\* history of an open edit prompt: what the verifySettings started at line
\* 413 has done to the cached settings of the target, from old to new:
\* nothing, filled empty fields ("loaded"), or altered a field ("changed")
Touched(was, old, new) ==
    IF new = old \/ was = "changed" THEN was
    ELSE IF \A f \in Fields : old[f] = "" \/ new[f] = old[f] THEN "loaded"
         ELSE "changed"

\* the secretStorage.get a verifySettings awaits (line 261, 269 or 277)
\* answers: the field is filled and the next missing one is asked for, or
\* the function returns (false at lines 265, 273, 281; true at 284-285)
VerifyGet(v) ==
    LET f == verP[v].pc
        n == verP[v].target
        o == verP[v].obj
        value == secrets[n][f]
        hp == [heap EXCEPT ![o][f] = value]
        j == NextMissing(hp[o], FieldIndex(f) + 1)
        st == IF value # "" /\ j = 0 THEN [settings EXCEPT ![n] = o] ELSE settings
        vp == IF value # "" /\ j # 0
              THEN [verP EXCEPT ![v].pc = FieldOrder[j]]
              ELSE [verP EXCEPT ![v] = IdleVerify]
    IN  /\ verP[v].pc \in Fields
        /\ settings' = st
        /\ verP' = vp
        /\ heap' = Collect(IF value # "" THEN hp ELSE heap, st, vp)
        /\ ev' = IF value = "" THEN Event("verify_ret", n, 0, {"false"})
                 ELSE IF j = 0 THEN Event("verify_ret", n, 0, {"true"})
                 ELSE Step
        /\ editP' = IF verP[v].by = "edit" /\ editP.pc = "prompt" /\ editP.name = n
                    THEN [editP EXCEPT !.touched =
                            Touched(@, CachedSettings(settings, heap, n),
                                    CachedSettings(st, heap', n))]
                    ELSE editP
        /\ UNCHANGED <<currentTarget, currentBucket, targets, persisted,
                       secrets, clients, addP, deleting, removed, bucket,
                       events, loopVars, fileVars>>

\* getClient(currentTarget), as getBuckets, getFilesInBucket and the other
\* store operations call it. The promise of line 290 is never falsy, so line
\* 292 is not reached; verifySettings has put an object into the settings map
\* before line 298, so line 301 is not reached either.
GetClient(n) ==
    /\ Op1
    /\ n = currentTarget
    /\ CanVerify(n)
    /\ LET r == VerifyEnter(n, "connect") IN
          /\ settings' = r.st
          /\ verP' = r.vp
          /\ IF clients[n] # NoClient
             THEN /\ clients' = clients
                  /\ ev' = Event("connect", n, 0, {"cached"})
             ELSE /\ clients' = [clients EXCEPT ![n] = NewClient(heap[r.st[n]])]
                  /\ ev' = Event("connect", n, 0, {"built"})
    /\ UNCHANGED <<currentTarget, currentBucket, targets, persisted, secrets,
                   heap, addP, editP, deleting, removed, bucket, loopVars, fileVars>>

\* getBuckets() with no current target, as the tree view calls it for its
\* Buckets section: line 323 is true and line 324 returns the empty list;
\* getClient is not called and nothing is sent
GetBucketsUnselected ==
    /\ Op1
    /\ currentTarget = Unselected
    /\ ev' = Event("buckets", NoUri, 0, {"empty"})
    /\ UNCHANGED <<currentTarget, currentBucket, targets, persisted, secrets,
                   settings, heap, clients, verP, addP, editP, deleting,
                   removed, bucket, loopVars, fileVars>>

\* a TargetSettings object for lines 404 and 430: one nothing else holds
FreshFor(n) == Least(ObjIds \ Referenced([settings EXCEPT ![n] = 0], verP))

\* addTarget(n) up to the prompt: lines 386-390 (one settings prompt is open
\* at a time)
AddStart(n) ==
    /\ Op1
    /\ addP.pc = "idle"
    /\ editP.pc = "idle"
    /\ targets' = Append(targets, n)
    /\ persisted' = targets'
    /\ addP' = [pc |-> "prompt", name |-> n, result |-> NoCreds, before |-> targets]
    /\ removed' = removed \ {n}
    /\ ev' = Step
    /\ UNCHANGED <<currentTarget, currentBucket, secrets, settings, heap,
                   clients, editP, verP, deleting, bucket, loopVars, fileVars>>

\* the prompt answers undefined (cancel, or the panel is closed): lines 391-395
AddCancel ==
    /\ addP.pc = "prompt"
    /\ targets' = Filter(targets, addP.name)
    /\ persisted' = targets'
    /\ addP' = IdleAdd
    /\ ev' = Event("add_cancel", addP.name, 0, {})
    /\ UNCHANGED <<currentTarget, currentBucket, secrets, settings, heap,
                   clients, editP, verP, deleting, removed, bucket, events,
                   loopVars, fileVars>>

\* the prompt answers a result and the secretStorage.store of line 399 is
\* done (the answer by itself changes nothing another invocation can see)
AddSave(c) ==
    /\ addP.pc = "prompt"
    /\ secrets' = [secrets EXCEPT ![addP.name][FieldOrder[1]] = c]
    /\ addP' = [addP EXCEPT !.pc = FieldOrder[2], !.result = Result(c)]
    /\ removed' = removed \ {addP.name}
    /\ ev' = Step
    /\ UNCHANGED <<currentTarget, currentBucket, targets, persisted,
                   settings, heap, clients, editP, verP, deleting,
                   bucket, events, loopVars, fileVars>>

\* a secretStorage.store of lines 400-401 is done; after the second, lines
\* 404-408 cache the new settings
AddStore ==
    LET f == addP.pc
        n == addP.name
        last == FieldIndex(f) = Len(FieldOrder)
        o == FreshFor(n)
        st == IF last THEN [settings EXCEPT ![n] = o] ELSE settings
    IN  /\ addP.pc \in Fields
        /\ secrets' = [secrets EXCEPT ![n][f] = addP.result[f]]
        /\ settings' = st
        /\ heap' = IF last THEN Collect([heap EXCEPT ![o] = addP.result], st, verP)
                   ELSE heap
        /\ addP' = IF last THEN IdleAdd
                   ELSE [addP EXCEPT !.pc = FieldOrder[FieldIndex(f) + 1]]
        /\ ev' = IF last THEN Event("add_done", n, 0, {}) ELSE Step
        /\ UNCHANGED <<currentTarget, currentBucket, targets, persisted,
                       clients, editP, verP, deleting, removed, bucket, events,
                       loopVars, fileVars>>

\* a secretStorage.store of addTarget rejects: the function throws there
AddFail ==
    /\ addP.pc \in Fields
    /\ addP' = IdleAdd
    /\ ev' = Event("add_fail", addP.name, 0, {})
    /\ UNCHANGED <<currentTarget, currentBucket, targets, persisted, secrets,
                   settings, heap, clients, editP, verP, deleting, removed,
                   bucket, events, loopVars, fileVars>>

\* editTarget(n) up to the prompt: lines 413-418. The promise of line 413 is
\* never falsy, so line 415 is not reached; the verifySettings it started goes
\* on by itself.
EditStart(n) ==
    /\ Op1
    /\ editP.pc = "idle"
    /\ addP.pc = "idle"
    /\ \E i \in 1..Len(targets) : targets[i] = n
    /\ CanVerify(n)
    /\ LET r == VerifyEnter(n, "edit") IN
          /\ settings' = r.st
          /\ verP' = r.vp
    /\ editP' = [pc |-> "prompt", name |-> n, result |-> NoCreds, touched |-> ""]
    /\ ev' = Step
    /\ UNCHANGED <<currentTarget, currentBucket, targets, persisted, secrets,
                   heap, clients, addP, deleting, removed, bucket, loopVars, fileVars>>

\* faulty variant: a cancelled edit drops the client as a saved one does
EditCancelDropsClient ==
    /\ editP.pc = "prompt"
    /\ editP' = IdleEdit
    /\ clients' = [clients EXCEPT ![editP.name] = NoClient]
    /\ ev' = Event("edit_cancel", editP.name, 0,
                   IF editP.touched = "" THEN {} ELSE {editP.touched})
    /\ UNCHANGED <<currentTarget, currentBucket, targets, persisted, secrets,
                   settings, heap, addP, verP, deleting, removed,
                   bucket, events, loopVars, fileVars>>

\* the prompt answers undefined: lines 419-422
EditCancel ==
    /\ editP.pc = "prompt"
    /\ editP' = IdleEdit
    /\ ev' = Event("edit_cancel", editP.name, 0,
                   IF editP.touched = "" THEN {} ELSE {editP.touched})
    /\ UNCHANGED <<currentTarget, currentBucket, targets, persisted, secrets,
                   settings, heap, clients, addP, verP, deleting, removed,
                   bucket, events, loopVars, fileVars>>

\* the prompt answers a result and the secretStorage.store of line 425 is
\* done (the answer by itself changes nothing another invocation can see)
EditSave(c) ==
    /\ editP.pc = "prompt"
    /\ secrets' = [secrets EXCEPT ![editP.name][FieldOrder[1]] = c]
    /\ editP' = [editP EXCEPT !.pc = FieldOrder[2], !.result = Result(c)]
    /\ ev' = Step
    /\ UNCHANGED <<currentTarget, currentBucket, targets, persisted,
                   settings, heap, clients, addP, verP, deleting, removed,
                   bucket, events, loopVars, fileVars>>

\* a secretStorage.store of lines 426-427 is done; after the second, lines
\* 430-437 cache the new settings and drop the client
EditStore ==
    LET f == editP.pc
        n == editP.name
        last == FieldIndex(f) = Len(FieldOrder)
        o == FreshFor(n)
        st == IF last THEN [settings EXCEPT ![n] = o] ELSE settings
    IN  /\ editP.pc \in Fields
        /\ secrets' = [secrets EXCEPT ![n][f] = editP.result[f]]
        /\ settings' = st
        /\ heap' = IF last THEN Collect([heap EXCEPT ![o] = editP.result], st, verP)
                   ELSE heap
        /\ clients' = IF last THEN [clients EXCEPT ![n] = NoClient] ELSE clients
        /\ editP' = IF last THEN IdleEdit
                    ELSE [editP EXCEPT !.pc = FieldOrder[FieldIndex(f) + 1]]
        /\ ev' = IF last THEN Event("edit_done", n, 0, {}) ELSE Step
        /\ UNCHANGED <<currentTarget, currentBucket, targets, persisted,
                       addP, verP, deleting, removed, bucket, events, loopVars, fileVars>>

\* a secretStorage.store of editTarget rejects: the function throws there
EditFail ==
    /\ editP.pc \in Fields
    /\ editP' = IdleEdit
    /\ ev' = Event("edit_fail", editP.name, 0, {})
    /\ UNCHANGED <<currentTarget, currentBucket, targets, persisted, secrets,
                   settings, heap, clients, addP, verP, deleting, removed,
                   bucket, events, loopVars, fileVars>>

\* faulty variant: the removed current target is replaced by nothing
CurrentAfterRemoveNone(list, cur, n) ==
    IF cur = n THEN Unselected ELSE cur

\* lines 452-454: list is the list after the filter of line 450
CurrentAfterRemove(list, cur, n) ==
    IF cur = n
    THEN IF Len(list) > 0 THEN list[1] ELSE Unselected
    ELSE cur

\* removeTarget(n), lines 450-460: synchronous; the three
\* secretStorage.delete calls are issued and not awaited
Remove(n) ==
    /\ Op1
    /\ \E i \in 1..Len(targets) : targets[i] = n
    /\ targets' = Filter(targets, n)
    /\ persisted' = targets'
    /\ currentTarget' = CurrentAfterRemove(targets', currentTarget, n)
    /\ settings' = [settings EXCEPT ![n] = 0]
    /\ heap' = Collect(heap, settings', verP)
    /\ clients' = [clients EXCEPT ![n] = NoClient]
    /\ deleting' = deleting \o [i \in 1..Len(FieldOrder) |-> <<n, FieldOrder[i]>>]
    /\ removed' = removed \cup {n}
    /\ ev' = Event("remove", n, 0, IF currentTarget = n THEN {"current"} ELSE {})
    /\ UNCHANGED <<currentBucket, secrets, addP, editP, verP, bucket, loopVars, fileVars>>

\* the secret store serves the oldest delete issued by removeTarget
DeleteSecret ==
    /\ deleting # <<>>
    /\ deleting' = Tail(deleting)
    /\ secrets' = [secrets EXCEPT ![Head(deleting)[1]][Head(deleting)[2]] = ""]
    /\ ev' = Step
    /\ UNCHANGED <<currentTarget, currentBucket, targets, persisted, settings,
                   heap, clients, addP, editP, verP, removed, bucket, events,
                   loopVars, fileVars>>

\* excalidraw-sync.selectS3Target on an item of the Targets section
SelectListed(t) ==
    /\ events < MaxOps
    /\ \E i \in 1..Len(targets) : targets[i] = t
    /\ SelectTarget(t)

\* excalidraw-sync.selectS3Bucket on an item of the Buckets section
PickBucket(b) ==
    /\ events < MaxOps
    /\ SelectBucket(b)

NextTargets ==
    \/ \E v \in Verifies : VerifyGet(v)
    \/ \E n \in Names : GetClient(n)
    \/ GetBucketsUnselected
    \/ \E n \in Names : AddStart(n)
    \/ AddCancel
    \/ \E c \in Prompted : AddSave(c)
    \/ AddStore
    \/ AddFail
    \/ \E n \in Names : EditStart(n)
    \/ EditCancel
    \/ \E c \in Prompted : EditSave(c)
    \/ EditStore
    \/ EditFail
    \/ \E n \in Names : Remove(n)
    \/ DeleteSecret
    \/ \E n \in Names : SelectListed(n)
    \/ PickBucket("b1")

SpecTargets == InitTargets /\ [][NextTargets]_vars

\* ------------------------------------------------------------ deleteBucket
otherVars == <<currentTarget, currentBucket, targets, persisted, secrets,
               addP, editP, deleting, removed, events, ev, loopVars, fileVars>>

\* a bucket of the current target with any set of objects, listed by the
\* store in pages of one or two keys; the registry as the constructor left
\* it for one configured target
InitDeleteBucket ==
    /\ \E ks \in SUBSET ObjectKeys, sz \in PageSizes :
          bucket = [IdleBucket EXCEPT !.exists = TRUE, !.keys = ks, !.size = sz,
                                      !.held = ks]
    /\ targets = <<"t1">>
    /\ persisted = <<"t1">>
    /\ currentTarget = "t1"
    /\ secrets = [n \in Names |-> IF n = "t1" THEN Result("c1") ELSE NoCreds]
    /\ settings = [n \in Names |-> IF n = "t1" THEN 1 ELSE 0]
    /\ verP = [v \in Verifies |->
          IF v = 1
          THEN [pc |-> FieldOrder[1], target |-> "t1", obj |-> 1, by |-> "init"]
          ELSE IdleVerify]
    /\ heap = [i \in ObjIds |-> NoCreds]
    /\ clients = [n \in Names |-> NoClient]
    /\ addP = IdleAdd
    /\ editP = IdleEdit
    /\ deleting = <<>>
    /\ removed = {}
    /\ FilesIdle
    /\ currentBucket = Unselected
    /\ fileWatchers = <<>>
    /\ updateTimes = [u \in Uris |-> Undef]
    /\ isSyncing = [u \in Uris |-> FALSE]
    /\ tabs = {}
    /\ localM = [u \in Uris |-> Undef]
    /\ remote = [u \in Uris |-> NoObject]
    /\ now = 0
    /\ cyc = [c \in Cycles |-> IdleCycle]
    /\ opens = [o \in Opens |-> IdleOpen]
    /\ ev = NoEvent
    /\ pushCount = [u \in Uris |-> 0]
    /\ calls = [n |-> 0, fetches |-> 0]
    /\ events = 0

\* excalidraw-sync.deleteS3Bucket on a bucket item: the modal warning of
\* extension.ts lines 69-73 is shown
DeleteBucketAsk ==
    /\ bucket.pc \in {"idle", "failed"}
    /\ bucket.exists
    /\ bucket' = [bucket EXCEPT !.pc = "confirm"]
    /\ UNCHANGED <<settings, heap, clients, verP, otherVars>>

\* the warning is dismissed: line 75 is false and nothing is called
DeleteBucketDecline ==
    /\ bucket.pc = "confirm"
    /\ bucket' = [bucket EXCEPT
            !.pc = IF bucket.failedAt = "" THEN "idle" ELSE "failed"]
    /\ UNCHANGED <<settings, heap, clients, verP, otherVars>>

\* 'Delete' is chosen: deleteBucket runs to its first client.send (lines
\* 347-360); getClient acts as in GetClient
DeleteBucketStart ==
    /\ bucket.pc = "confirm"
    /\ currentTarget # Unselected
    /\ CanVerify(currentTarget)
    /\ LET n == currentTarget
           r == VerifyEnter(n, "connect")
       IN  /\ settings' = r.st
           /\ verP' = r.vp
           /\ clients' = IF clients[n] # NoClient THEN clients
                         ELSE [clients EXCEPT ![n] = NewClient(heap[r.st[n]])]
    /\ bucket' = [bucket EXCEPT !.pc = "list", !.n = Cardinality(bucket.keys),
                                !.token = 0, !.deleted = 0, !.dropped = 0,
                                !.retry = bucket.failedAt # "",
                                !.failedAt = ""]
    /\ UNCHANGED <<heap, otherVars>>

\* where the loop goes once a page is done with (lines 375-376)
AfterPage(nextToken) == IF nextToken # 0 THEN "list" ELSE "drop"

\* the ListObjectsV2 of line 360 answers: lines 362-363 start on the page,
\* or lines 375-376 when the page is empty
ListPage ==
    /\ bucket.pc = "list"
    /\ LET page == PageOf(bucket.keys, bucket.token, bucket.size)
           nt == NextTokenOf(bucket.keys, bucket.token, bucket.size)
       IN  bucket' = IF Len(page) > 0
                     THEN [bucket EXCEPT !.pc = "delete", !.page = page,
                                         !.next = 1, !.nextToken = nt]
                     ELSE [bucket EXCEPT !.pc = AfterPage(nt), !.page = <<>>,
                                         !.next = 0, !.nextToken = 0,
                                         !.token = nt]
    /\ UNCHANGED <<settings, heap, clients, verP, otherVars>>

\* the DeleteObject of line 370 for the next key of the page answers; after
\* the last key of the page, lines 375-376
DeleteObject ==
    /\ bucket.pc = "delete"
    /\ LET k == bucket.page[bucket.next]
           last == bucket.next = Len(bucket.page)
       IN  bucket' = [bucket EXCEPT
                !.keys = @ \ {k},
                !.deleted = @ + 1,
                !.early = @ \/ bucket.dropped > 0,
                !.next = IF last THEN 0 ELSE @ + 1,
                !.page = IF last THEN <<>> ELSE @,
                !.token = IF last THEN bucket.nextToken ELSE @,
                !.nextToken = IF last THEN 0 ELSE @,
                !.pc = IF last THEN AfterPage(bucket.nextToken) ELSE @]
    /\ UNCHANGED <<settings, heap, clients, verP, otherVars>>

\* the DeleteBucket of line 382 answers: the store removes an empty bucket
\* and rejects the command for any other
DropBucket ==
    /\ bucket.pc = "drop"
    /\ bucket' = [bucket EXCEPT
            !.dropped = @ + 1,
            !.exists = bucket.keys # {},
            !.failedAt = IF bucket.keys = {} THEN "" ELSE "drop",
            !.pc = IF bucket.keys = {} THEN "done" ELSE "failed"]
    /\ UNCHANGED <<settings, heap, clients, verP, otherVars>>

\* faulty variant: a rejected listing or DeleteObject is swallowed and the
\* call goes on to its DeleteBucket
SendFailsSwallowed ==
    /\ bucket.pc \in {"list", "delete", "drop"}
    /\ bucket' = [bucket EXCEPT
            !.pc = IF bucket.pc = "drop" THEN "failed" ELSE "drop",
            !.failedAt = IF bucket.pc = "drop" THEN "drop" ELSE @,
            !.deleted = IF bucket.pc = "delete" THEN @ + 1 ELSE @,
            !.dropped = IF bucket.pc = "drop" THEN @ + 1 ELSE @]
    /\ UNCHANGED <<settings, heap, clients, verP, otherVars>>

\* a client.send of line 360, 370 or 382 is rejected (network, credentials):
\* the command was sent, the exception leaves deleteBucket and the handler
SendFails ==
    /\ bucket.pc \in {"list", "delete", "drop"}
    /\ bucket' = [bucket EXCEPT
            !.pc = "failed",
            !.failedAt = bucket.pc,
            !.deleted = IF bucket.pc = "delete" THEN @ + 1 ELSE @,
            !.dropped = IF bucket.pc = "drop" THEN @ + 1 ELSE @]
    /\ UNCHANGED <<settings, heap, clients, verP, otherVars>>

NextDeleteBucket ==
    \/ DeleteBucketAsk
    \/ DeleteBucketDecline
    \/ DeleteBucketStart
    \/ ListPage
    \/ DeleteObject
    \/ DropBucket
    \/ SendFails
    \/ \E v \in Verifies : VerifyGet(v)

SpecDeleteBucket == InitDeleteBucket /\ [][NextDeleteBucket]_vars

\* ------------------------------------------- deleteBucket and uploads
\* the bucket that the deleteS3Bucket command was given for
PurgedBucket == "b1"

\* the store answers a PutObjectCommand of updateFile (lines 597-608) for an
\* object of the bucket: a sync cycle pushing a watched file, or
\* createExcalidrawFile (extension.ts 157), while that bucket is selected
\* and a deleteBucket is under way
PutObject(k) ==
    /\ currentTarget # Unselected
    /\ currentBucket = PurgedBucket
    /\ bucket.exists
    /\ bucket.pc \in {"list", "delete", "drop"}
    /\ bucket' = [bucket EXCEPT !.keys = @ \cup {k}]
    /\ UNCHANGED <<settings, heap, clients, verP, otherVars>>

\* the bucket is selected in the Buckets section, once
SelectPurged ==
    /\ events = 0
    /\ SelectBucket(PurgedBucket)

NextPurgeRace ==
    \/ NextDeleteBucket
    \/ SelectPurged
    \/ \E k \in ObjectKeys : PutObject(k)

SpecPurgeRace == InitDeleteBucket /\ [][NextPurgeRace]_vars

\* --------------------------------------------------------------- namespace
\* everything but the key space
restVars == <<currentTarget, currentBucket, ev, regVarsButFiles, loopVars, del>>

\* a target and a bucket are selected and the bucket has been listed before:
\* the credentials are in the settings cache and the connection is cached,
\* so that getClient changes nothing; the bucket holds what other clients
\* have put there
InitNamespace ==
    /\ objects \in SUBSET ForeignKeys
    /\ limit \in Limits
    /\ nodes = {}
    /\ lastOp = [NoOp EXCEPT !.held = objects]
    /\ del = IdleDel
    /\ targets = <<"t1">>
    /\ persisted = <<"t1">>
    /\ currentTarget = "t1"
    /\ currentBucket = "b1"
    /\ secrets = [n \in Names |-> IF n = "t1" THEN Result("c1") ELSE NoCreds]
    /\ settings = [n \in Names |-> IF n = "t1" THEN 1 ELSE 0]
    /\ heap = [i \in ObjIds |-> IF i = 1 THEN Result("c1") ELSE NoCreds]
    /\ clients = [n \in Names |->
          IF n = "t1" THEN NewClient(Result("c1")) ELSE NoClient]
    /\ verP = [v \in Verifies |-> IdleVerify]
    /\ addP = IdleAdd
    /\ editP = IdleEdit
    /\ deleting = <<>>
    /\ removed = {}
    /\ bucket = IdleBucket
    /\ fileWatchers = <<>>
    /\ updateTimes = [u \in Uris |-> Undef]
    /\ isSyncing = [u \in Uris |-> FALSE]
    /\ tabs = {}
    /\ localM = [u \in Uris |-> Undef]
    /\ remote = [u \in Uris |-> NoObject]
    /\ now = 0
    /\ cyc = [c \in Cycles |-> IdleCycle]
    /\ opens = [o \in Opens |-> IdleOpen]
    /\ ev = NoEvent
    /\ pushCount = [u \in Uris |-> 0]
    /\ calls = [n |-> 0, fetches |-> 0]
    /\ events = 0

\* one more call on the key space, within the bound; getClient finds the
\* credentials cached (verifySettings returns at once) and the connection
\* cached (lines 294-297)
FileOp1 ==
    /\ events < MaxFileOps
    /\ events' = events + 1
    /\ HasSelection
    /\ clients[currentTarget] # NoClient
    /\ NextMissing(CachedSettings(settings, heap, currentTarget), 1) = 0

\* the directories a listing can return within the bound: segment names
\* nested up to three deep
SegmentNames == {Docs, <<"x">>}
DirsBelow(parents) == { Directory(n, p) : n \in SegmentNames, p \in parents }
DirNodes ==
    DirsBelow({NoDir}) \cup DirsBelow(DirsBelow({NoDir}))
        \cup DirsBelow(DirsBelow(DirsBelow({NoDir})))

\* a tree item stands for parent: the files section for the root, else a
\* directory that a listing has returned
Shown(parent) == parent = NoDir \/ parent \in nodes

\* getFilesInBucket(parent): the tree view expands the files section or a
\* directory item
ListFiles(parent) ==
    /\ FileOp1
    /\ Shown(parent)
    /\ LET items == GetFilesInBucket(objects, parent, limit) IN
          /\ nodes' = nodes \cup SeqToSet(items)
          /\ lastOp' = [NoOp EXCEPT
                !.op = "list", !.node = parent, !.key = PrefixOf(parent),
                !.items = items, !.held = lastOp.held, !.puts = lastOp.puts,
                !.truncated = ListObjectsV2(objects, PrefixOf(parent), limit).IsTruncated]
    /\ UNCHANGED <<objects, limit, restVars>>

\* excalidraw-sync.addS3Folder on the files section or a directory item:
\* addDirectory(new Directory(folderName, parent)), lines 573-585
AddDirectory(parent, folderName) ==
    /\ FileOp1
    /\ Shown(parent)
    /\ LET directory == Directory(folderName, parent)
           key == GetObjectKey(directory)
           sent == IF EndsWith(key, "/") THEN key \o <<"/">> ELSE key
       IN
          /\ objects' = objects \cup {sent}
          /\ lastOp' = [NoOp EXCEPT !.op = "addDirectory", !.node = directory,
                                    !.key = key, !.sent = sent, !.body = 0,
                                    !.held = lastOp.held,
                                    !.puts = Append(lastOp.puts,
                                                    <<"addDirectory", directory>>)]
    /\ UNCHANGED <<limit, nodes, restVars>>

\* excalidraw-sync.createExcalidrawFile on a directory item:
\* updateFile(new File(fileName, 12, parent), content), lines 597-608
UpdateFile(parent, fileName) ==
    /\ FileOp1
    /\ parent \in nodes
    /\ LET file == File(fileName, parent)
           key == GetObjectKey(file)
       IN
          /\ objects' = objects \cup {key}
          /\ lastOp' = [NoOp EXCEPT !.op = "updateFile", !.node = file,
                                    !.key = key, !.sent = key,
                                    !.body = 1, !.held = lastOp.held,
                                    !.puts = Append(lastOp.puts,
                                                    <<"updateFile", file>>)]
    /\ UNCHANGED <<limit, nodes, restVars>>

NextNamespace ==
    \/ \E parent \in DirNodes \cup {NoDir} : ListFiles(parent)
    \/ \E parent \in DirNodes \cup {NoDir}, folderName \in FolderNames :
          AddDirectory(parent, folderName)
    \/ \E parent \in DirNodes, fileName \in FileNames : UpdateFile(parent, fileName)

SpecNamespace == InitNamespace /\ [][NextNamespace]_vars

\* --------------------------------------------------------------- deleteFile
\* what a deleteFile step leaves alone
delRest == <<currentTarget, currentBucket, fileWatchers, updateTimes, isSyncing,
             tabs, now, cyc, opens, pushCount, calls, events, regVarsButFiles,
             objects, limit, nodes, lastOp>>

\* a target and a bucket are selected and the bucket has been listed: the
\* credentials and the connection are cached; some of the files have a local
\* copy from an earlier open
InitDeleteFile ==
    /\ currentTarget = "t1"
    /\ currentBucket = "b1"
    /\ fileWatchers = <<>>
    /\ updateTimes = [u \in Uris |-> Undef]
    /\ isSyncing = [u \in Uris |-> FALSE]
    /\ tabs = {}
    /\ now = 1
    /\ \E copies \in SUBSET Uris :
          localM = [u \in Uris |-> IF u \in copies THEN 0 ELSE Undef]
    /\ \E r \in RemoteInit :
          remote = [u \in Uris |-> IF u \in Listed THEN r ELSE NoObject]
    /\ cyc = [c \in Cycles |-> IdleCycle]
    /\ opens = [o \in Opens |-> IdleOpen]
    /\ ev = NoEvent
    /\ pushCount = [u \in Uris |-> 0]
    /\ calls = [n |-> 0, fetches |-> 0]
    /\ events = 0
    /\ targets = <<"t1">>
    /\ persisted = <<"t1">>
    /\ secrets = [n \in Names |-> IF n = "t1" THEN Result("c1") ELSE NoCreds]
    /\ settings = [n \in Names |-> IF n = "t1" THEN 1 ELSE 0]
    /\ heap = [i \in ObjIds |-> IF i = 1 THEN Result("c1") ELSE NoCreds]
    /\ clients = [n \in Names |->
          IF n = "t1" THEN NewClient(Result("c1")) ELSE NoClient]
    /\ verP = [v \in Verifies |-> IdleVerify]
    /\ addP = IdleAdd
    /\ editP = IdleEdit
    /\ deleting = <<>>
    /\ removed = {}
    /\ bucket = IdleBucket
    /\ FilesIdle

\* excalidraw-sync.deleteFile on the item of a file the tree shows: the modal
\* warning of extension.ts lines 184-188
DeleteFileAsk(k) ==
    /\ del.pc = "idle"
    /\ HasSelection
    /\ remote[toFileUri(k)].exists
    /\ del' = [IdleDel EXCEPT !.pc = "confirm", !.key = k]
    /\ ev' = Step
    /\ UNCHANGED <<localM, remote, delRest>>

\* the warning is dismissed: line 189 is false
DeleteFileDecline ==
    /\ del.pc = "confirm"
    /\ del' = IdleDel
    /\ ev' = Step
    /\ UNCHANGED <<localM, remote, delRest>>

\* 'Delete' is chosen and deleteFile runs to its client.send: lines 613-623.
\* With nothing selected it shows the message and returns (613-616), and the
\* handler goes on with lines 191-192. getClient finds the credentials and
\* the connection cached.
DeleteFileStart ==
    /\ del.pc = "confirm"
    /\ IF HasSelection
       THEN /\ clients[currentTarget] # NoClient
            /\ NextMissing(CachedSettings(settings, heap, currentTarget), 1) = 0
            /\ del' = [del EXCEPT !.pc = "send", !.dest = toFileUri(del.key)]
            /\ ev' = Step
       ELSE /\ del' = [del EXCEPT !.pc = "idle"]
            /\ ev' = Event("del_noop", NoUri, 0, {})
    /\ UNCHANGED <<localM, remote, delRest>>

\* faulty variant: the local copy is removed although the store refused
DeleteObjectFailsLocalGone ==
    /\ del.pc = "send"
    /\ del' = [del EXCEPT !.pc = "idle"]
    /\ localM' = [localM EXCEPT ![del.dest] = Undef]
    /\ ev' = Event("del_fail", del.dest, 0, {"send"})
    /\ UNCHANGED <<remote, delRest>>

\* the DeleteObjectCommand is rejected: line 623 throws out of deleteFile and
\* of the handler
DeleteObjectFails ==
    /\ del.pc = "send"
    /\ del' = [del EXCEPT !.pc = "idle"]
    /\ ev' = Event("del_fail", del.dest, 0, {"send"})
    /\ UNCHANGED <<localM, remote, delRest>>

\* the store has deleted the object (line 623); toFileUri of line 625 throws
\* if the selection has gone meanwhile, else fs.delete is called (line 627)
DeleteObject1 ==
    /\ del.pc = "send"
    /\ remote' = [remote EXCEPT ![del.dest] = NoObject]
    /\ IF HasSelection
       THEN /\ del' = [del EXCEPT !.pc = "local", !.remoteDone = TRUE,
                                  !.local = toFileUri(del.key)]
            /\ ev' = Step
       ELSE /\ del' = [del EXCEPT !.pc = "idle", !.remoteDone = TRUE]
            /\ ev' = Event("del_fail", del.dest, 0, {"toFileUri"})
    /\ UNCHANGED <<localM, delRest>>

\* fs.delete removes the local copy; deleteFile returns and the handler shows
\* its message and refreshes the tree (lines 191-192)
LocalDelete ==
    /\ del.pc = "local"
    /\ localM[del.local] # Undef
    /\ localM' = [localM EXCEPT ![del.local] = Undef]
    /\ del' = [del EXCEPT !.pc = "idle", !.localTouched = TRUE]
    /\ ev' = Event("del_done", del.dest, 0, {"local"})
    /\ UNCHANGED <<remote, delRest>>

\* fs.delete rejects, as it does when there is no local copy: lines 628-630
\* report it, deleteFile returns and the handler goes on as above
LocalDeleteFails ==
    /\ del.pc = "local"
    /\ del' = [del EXCEPT !.pc = "idle"]
    /\ ev' = Event("del_done", del.dest, 0, {"local_failed"})
    /\ UNCHANGED <<localM, remote, delRest>>

NextDeleteFile ==
    \/ \E k \in Keys : DeleteFileAsk(k)
    \/ DeleteFileDecline
    \/ DeleteFileStart
    \/ DeleteObject1
    \/ DeleteObjectFails
    \/ LocalDelete
    \/ LocalDeleteFails
    \/ \E t \in Targets : SelectTarget(t)
    \/ \E b \in Buckets : SelectBucket(b)

SpecDeleteFile == InitDeleteFile /\ [][NextDeleteFile]_vars

\* ----------------------------------------------- deleteFile of a watched file
\* the session of InitPush after the bucket has been listed: the file of
\* PushUri is open in an editor, watched and saved at time 1, and the
\* credentials and the connection are cached
InitDeleteWatched ==
    /\ currentTarget = "t1"
    /\ currentBucket = "b1"
    /\ fileWatchers = <<PushUri>>
    /\ updateTimes = [u \in Uris |-> IF u = PushUri THEN 0 ELSE Undef]
    /\ isSyncing = [u \in Uris |-> FALSE]
    /\ tabs = {PushUri}
    /\ now = 1
    /\ localM = [u \in Uris |-> IF u = PushUri THEN 1 ELSE Undef]
    /\ \E r \in RemoteInit :
          remote = [u \in Uris |-> IF u \in Listed THEN r ELSE NoObject]
    /\ cyc = [c \in Cycles |-> IdleCycle]
    /\ opens = [o \in Opens |-> IdleOpen]
    /\ ev = NoEvent
    /\ pushCount = [u \in Uris |-> 0]
    /\ calls = [n |-> 0, fetches |-> 0]
    /\ events = 0
    /\ targets = <<"t1">>
    /\ persisted = <<"t1">>
    /\ secrets = [n \in Names |-> IF n = "t1" THEN Result("c1") ELSE NoCreds]
    /\ settings = [n \in Names |-> IF n = "t1" THEN 1 ELSE 0]
    /\ heap = [i \in ObjIds |-> IF i = 1 THEN Result("c1") ELSE NoCreds]
    /\ clients = [n \in Names |->
          IF n = "t1" THEN NewClient(Result("c1")) ELSE NoClient]
    /\ verP = [v \in Verifies |-> IdleVerify]
    /\ addP = IdleAdd
    /\ editP = IdleEdit
    /\ deleting = <<>>
    /\ removed = {}
    /\ bucket = IdleBucket
    /\ FilesIdle

\* the delete command and the sync timer together
NextDeleteWatched ==
    \/ \E c \in Cycles : SyncStart(c)
    \/ \E c \in Cycles : SyncStat(c)
    \/ \E c \in Cycles : SyncRead(c)
    \/ \E c \in Cycles : SyncUStat(c)
    \/ \E c \in Cycles : SyncSend(c)
    \/ \E c \in Cycles : SyncFail(c)
    \/ \E k \in Keys : DeleteFileAsk(k)
    \/ DeleteFileDecline
    \/ DeleteFileStart
    \/ DeleteObject1
    \/ DeleteObjectFails
    \/ LocalDelete
    \/ LocalDeleteFails

SpecDeleteWatched == InitDeleteWatched /\ [][NextDeleteWatched]_vars

\* ================================================================ claims
PushPcs == {"read", "ustat", "send"}

ResolvePcs == {"exists", "get1", "get2", "write1", "write2", "stat", "head"}

\* the sync invocations that are between line 250 and line 254 for uri u
PushesInFlight(u) == { c \in Cycles : cyc[c].pc \in PushPcs /\ cyc[c].uri = u }

\* the open invocations that are inside getAndSyncLocalFilePath for item u
PullsInFlight(u) == { o \in Opens : opens[o].pc \in ResolvePcs /\ opens[o].item = u }

Watched == SeqToSet(fileWatchers)

\* C1: at most one push is in flight at any time for a watched artifact,
\* whatever the interleaving of sync-cycle ticks.
C1_OnePushInFlight ==
    \A u \in Uris : Cardinality(PushesInFlight(u)) <= 1

\* C2: a modification M seen by a sync cycle and pushed successfully is
\* pushed exactly once, and the entry's timestamp becomes M.
C2_PushedExactlyOnce ==
    /\ \A u \in Uris : pushCount[u] <= 1
    /\ ev.op = "pushed" => ev.info = {updateTimes[ev.uri]}

\* C3: a failure while one watched entry is processed does not keep the
\* remaining entries from being examined in the same cycle: a cycle ends only
\* when its loop has gone through every watched entry.
C3_FailureDoesNotEndCycle ==
    [][\A c \in Cycles :
          (cyc[c].pc # "idle" /\ cyc'[c].pc = "idle")
              => cyc[c].idx >= Len(fileWatchers)]_vars

\* C4: the syncing flag of an artifact is never left true with no push or
\* pull in flight for it, whether the operation succeeded or failed.
C4_FlagClearedAfterOperation ==
    \A u \in Uris :
        isSyncing[u] => (PushesInFlight(u) # {} \/ PullsInFlight(u) # {})

C7_NoWatchSurvivesSelection ==
    ev.op = "select" => Watched \cap ev.info = {}

\* C8: after a prune cycle every watched uri has an open editor tab, and
\* every uri that was watched and has an open tab is still watched with its
\* timestamp unchanged.
C8_PruneKeepsOpenEditors ==
    [][ev'.op = "prune" =>
          /\ SeqToSet(fileWatchers') \subseteq tabs
          /\ \A u \in Watched \cap tabs :
                /\ u \in SeqToSet(fileWatchers')
                /\ updateTimes'[u] = updateTimes[u]]_vars

\* C8 witness: a prune cycle has removed a watch and kept another.
C8_Witness ==
    /\ ev.op = "prune"
    /\ ev.info # {}
    /\ Watched # {}

\* C9: a watch entry is registered only by an open command whose resolve has
\* returned, with the time of registration as its timestamp; an open command
\* that fails changes neither the watch set nor any timestamp.
C9_RegisterOnlyAfterResolve ==
    [][/\ \A u \in Uris :
            (\/ (u \notin Watched /\ u \in SeqToSet(fileWatchers'))
             \/ (ev'.op = "registered" /\ ev'.uri = u))
            => /\ \E o \in Opens : opens[o].resolved /\ opens[o].uri = u
               /\ u \in SeqToSet(fileWatchers')
               /\ updateTimes'[u] = now
       /\ ev'.op = "open_fail" =>
            /\ fileWatchers' = fileWatchers
            /\ updateTimes' = updateTimes]_vars

\* C9 witness: an open command has just registered its watch at the current
\* time, after an open of another artifact failed inside resolve and left
\* neither a watch nor a timestamp.
C9_Witness ==
    /\ ev.op = "registered"
    /\ ev.uri \in Watched
    /\ updateTimes[ev.uri] = now
    /\ \E v \in Uris :
          /\ isSyncing[v]
          /\ PullsInFlight(v) = {}
          /\ v \notin Watched
          /\ updateTimes[v] = Undef

\* C10: two resolve calls in succession on one file, the remote object
\* unchanged in between, fetch the object's content at most once in total.
C10_AtMostOneFetch ==
    calls.fetches <= 1

WouldVerify(n) ==
    \A f \in Fields :
        CachedSettings(settings, heap, n)[f] # "" \/ secrets[n][f] # ""

\* C12: a cancelled add leaves the target list (in memory and persisted) and
\* the secret store as they were before the call, also when the name was in
\* the list already; an add that completes leaves the name in the persisted
\* list with its three secrets stored.
C12_AddAllOrNothing ==
    [][/\ (ev'.op = "add_cancel" /\ targets = Append(addP.before, addP.name)) =>
            /\ targets' = addP.before
            /\ persisted' = addP.before
            /\ secrets' = secrets
       /\ ev'.op = "add_done" =>
            /\ \E i \in 1..Len(persisted') : persisted'[i] = ev'.uri
            /\ \A f \in Fields : secrets'[ev'.uri][f] # ""]_vars

\* C13: once remove(t) is done and the secret deletions it issued have been
\* served, verify(t) returns false and no secret of t is in the secret store,
\* whatever verify or edit of t was in flight when remove was called.
C13_RemovedStaysUnverifiable ==
    \A t \in removed :
        (\A i \in 1..Len(deleting) : deleting[i][1] # t) =>
            /\ ~WouldVerify(t)
            /\ \A f \in Fields : secrets[t][f] = ""

\* C14: connect(t) neither creates nor returns a connection when verify(t)
\* would return false: every completed connect was made in a state where
\* all three secrets of t were at hand.
C14_ConnectNeedsSecrets ==
    [][ev'.op = "connect" => WouldVerify(ev'.uri)]_vars

\* C15: when an edit or an add has stored new credentials for a target, no
\* cached connection of that target is left.
C15_CredentialChangeDropsClient ==
    [][ev'.op \in {"edit_done", "add_done"} => clients'[ev'.uri] = NoClient]_vars

\* C16: a step that changes the current target leaves the current bucket
\* unset.
C16_BucketClearedWithTarget ==
    [][currentTarget' # currentTarget => currentBucket' = Unselected]_vars

\* the steps of editTarget and of the verifySettings it started
EditStep ==
    \/ editP' # editP
    \/ \E v \in Verifies : verP[v].by = "edit" /\ verP'[v] # verP[v]

\* C17: edit never changes the target list; a cancelled edit has changed
\* neither the secrets nor the cached settings nor the cached connection of
\* the target; edit removes the cached connection only when it succeeds.
C17_EditCancelChangesNothing ==
    [][/\ EditStep => (persisted' = persisted /\ targets' = targets)
       /\ ev'.op = "edit_cancel" =>
            /\ ev'.info = {}
            /\ secrets' = secrets
            /\ CachedSettings(settings', heap', ev'.uri)
                  = CachedSettings(settings, heap, ev'.uri)
            /\ clients' = clients
       /\ (EditStep /\ clients' # clients) => ev'.op = "edit_done"]_vars

\* C17 as the code has it: edit never changes the target list; the cancel
\* of an edit changes neither the secrets nor the cached settings nor the
\* cached connection; the verify that edit started changes the cached
\* settings only by writing values it read from the secret store, never by
\* clearing a field; edit removes the cached connection only when it
\* succeeds.
C17_EditCancelOnlyLoads ==
    [][/\ EditStep => (persisted' = persisted /\ targets' = targets)
       /\ \A v \in Verifies :
            (verP[v].by = "edit" /\ verP'[v] # verP[v]) =>
                \A f \in Fields :
                    LET old == CachedSettings(settings, heap, verP[v].target)[f]
                        new == CachedSettings(settings', heap', verP[v].target)[f]
                    IN  new # old => new # ""
       /\ ev'.op = "edit_cancel" =>
            /\ secrets' = secrets
            /\ CachedSettings(settings', heap', ev'.uri)
                  = CachedSettings(settings, heap, ev'.uri)
            /\ clients' = clients
       /\ (EditStep /\ clients' # clients) => ev'.op = "edit_done"]_vars

\* C17 witness: an edit has just been cancelled after its verify had loaded
\* credentials into the settings cache, with a connection cached.
C17_Witness ==
    /\ ev.op = "edit_cancel"
    /\ ev.info = {"loaded"}
    /\ clients[ev.uri] # NoClient
    /\ CachedSettings(settings, heap, ev.uri) # NoCreds

\* C18: remove(name) leaves the persisted list without name and with the
\* other targets in their order; if name was the current target, the current
\* target becomes the first target of the remaining list, or none when
\* nothing remains; if name was not current, the current target is unchanged.
C18_RemovePromotesFirst ==
    [][ev'.op = "remove" =>
          LET n == ev'.uri
              rest == SelectSeq(persisted, LAMBDA x : x # n)
          IN  /\ persisted' = rest
              /\ targets' = rest
              /\ currentTarget' =
                    IF currentTarget # n THEN currentTarget
                    ELSE IF rest = <<>> THEN Unselected ELSE rest[1]]_vars

\* C18 witness: the current target has just been removed and another target
\* remained, which is now current.
C18_Witness ==
    /\ ev.op = "remove"
    /\ "current" \in ev.info
    /\ persisted # <<>>
    /\ currentTarget = persisted[1]

\* C19: verifySettings(t) returns true only with all three credentials of t
\* in the settings cache, each of them cached before or read non-empty from
\* the secret store; when the secret it asks the store for is absent it
\* returns false, and it returns false in no other case.
C19_VerifyNeedsAllSecrets ==
    [][/\ \A v \in Verifies :
            (verP[v].pc \in Fields /\ verP'[v] # verP[v]) =>
                LET n == verP[v].target
                    f == verP[v].pc
                    absent == secrets[n][f] = ""
                    returned == verP'[v].pc = "idle"
                    all == \A g \in Fields :
                              /\ CachedSettings(settings', heap', n)[g] # ""
                              /\ heap[verP[v].obj][g] # "" \/ secrets[n][g] # ""
                IN  /\ absent => returned
                    /\ returned =>
                          /\ ev'.op = "verify_ret" /\ ev'.uri = n
                          /\ ev'.info = IF absent THEN {"false"} ELSE {"true"}
                          /\ ~absent => all
                    /\ ~returned => \E g \in Fields : heap'[verP[v].obj][g] = ""
       /\ (ev'.op = "connect" /\ verP' = verP) =>
              \A g \in Fields : CachedSettings(settings', heap', ev'.uri)[g] # ""]_vars

\* C19 witness: a verify has just returned false on a target whose access
\* key is in the secret store while another of its secrets is absent.
C19_Witness ==
    /\ ev.op = "verify_ret"
    /\ ev.info = {"false"}
    /\ secrets[ev.uri]["accessKeyId"] # ""
    /\ \E g \in Fields : secrets[ev.uri][g] = ""

\* C20: a deleteBucket call on a bucket that held N objects sends at most
\* one DeleteBucket command, sends it only after exactly N DeleteObject
\* commands, sends no DeleteObject after it, and when it returns it has
\* sent N DeleteObject commands and one DeleteBucket and the bucket is gone.
C20_ObjectsThenBucket ==
    /\ bucket.dropped <= 1
    /\ bucket.deleted <= bucket.n
    /\ ~bucket.early
    /\ bucket.dropped = 1 => bucket.deleted = bucket.n
    /\ bucket.pc = "drop" => (bucket.deleted = bucket.n /\ bucket.keys = {})
    /\ bucket.pc = "done" =>
          /\ bucket.deleted = bucket.n
          /\ bucket.dropped = 1
          /\ ~bucket.exists

\* C20 witness: a call has returned on a bucket whose three objects came in
\* more than one listing page.
C20_Witness ==
    /\ bucket.pc = "done"
    /\ bucket.n = 3
    /\ bucket.deleted = 3
    /\ bucket.dropped = 1

\* the names on the way from the root to a node, and their join with '/'
RECURSIVE Ancestry(_)
Ancestry(node) ==
    IF node.parentDir = NoDir THEN <<node.name>>
    ELSE Append(Ancestry(node.parentDir), node.name)

RECURSIVE JoinSlash(_)
JoinSlash(names) ==
    IF Len(names) = 1 THEN names[1]
    ELSE JoinSlash(SubSeq(names, 1, Len(names) - 1)) \o <<"/">> \o names[Len(names)]

PathKey(node) ==
    JoinSlash(Ancestry(node)) \o (IF node.isDirectory THEN <<"/">> ELSE <<>>)

\* every path segment of the part of a key after a prefix is non-empty
WellFormedUnder(key, prefix) ==
    LET rest == Slice(key, Len(prefix)) IN
    /\ StartsWith(key, prefix)
    /\ rest # <<>>
    /\ rest[1] # "/"
    /\ \A i \in 1..(Len(rest) - 1) : ~(rest[i] = "/" /\ rest[i + 1] = "/")

\* C22: when a directory reached from the root has been listed, every stored
\* key under it whose remaining segments are non-empty has its node among
\* the items unless the response was truncated: a file named by the rest of
\* the key, deriving exactly that key, or for a deeper key the directory of
\* its next segment, deriving the key up to that segment; and no two
\* distinct listed nodes derive the same key.
C22_ListedNodeDerivesKey ==
    /\ lastOp.op = "list" =>
          LET prefix == IF lastOp.node = NoDir THEN <<>> ELSE PathKey(lastOp.node)
              items == SeqToSet(lastOp.items)
          IN  \A k \in objects :
                 WellFormedUnder(k, prefix) =>
                    LET rest == Slice(k, Len(prefix))
                        i == FirstSlash(rest)
                        node == IF i = 0 THEN File(rest, lastOp.node)
                                ELSE Directory(SubSeq(rest, 1, i - 1), lastOp.node)
                        upTo == IF i = 0 THEN k ELSE prefix \o SubSeq(rest, 1, i)
                    IN  /\ ~lastOp.truncated => node \in items
                        /\ node \in items => GetObjectKey(node) = upTo
                        /\ \A n \in items :
                              (n.name = node.name /\ n.isDirectory = node.isDirectory)
                                  => n = node
    /\ \A a \in nodes, b \in nodes : a # b => GetObjectKey(a) # GetObjectKey(b)

\* C22 witness: a directory two levels down has just been listed and a file
\* node returned for it derives a key the bucket holds.
C22_Witness ==
    /\ lastOp.op = "list"
    /\ lastOp.node # NoDir
    /\ lastOp.node.parentDir # NoDir
    /\ \E n \in SeqToSet(lastOp.items) :
          ~n.isDirectory /\ GetObjectKey(n) \in objects

\* C23: the key derived for a node is the names from the root down to the
\* node joined by '/', followed by one '/' exactly when the node is a
\* directory.
C23_KeyIsJoinedPath ==
    \A n \in nodes \cup ({lastOp.node} \ {NoDir}) : GetObjectKey(n) = PathKey(n)

\* C23 as the code has it: the joined names, followed by one '/' exactly
\* when the node is a directory and the joined names do not end in '/'
\* already; so a directory's key always ends in '/', and a node whose name
\* does not end in '/' derives the joined path of C23.
C23_KeyIsJoinedPathOnce ==
    \A n \in nodes \cup ({lastOp.node} \ {NoDir}) :
        LET joined == JoinSlash(Ancestry(n)) IN
        /\ GetObjectKey(n) =
              IF n.isDirectory /\ ~EndsWith(joined, "/") THEN joined \o <<"/">>
              ELSE joined
        /\ n.isDirectory => EndsWith(GetObjectKey(n), "/")
        /\ ~EndsWith(n.name, "/") => GetObjectKey(n) = PathKey(n)
        /\ n.parentDir = NoDir =>
              GetObjectKey(n) \in {n.name, n.name \o <<"/">>}

\* C23 witness: a key has been derived for a directory below another
\* directory, and one for a file below a directory.
C23_Witness ==
    /\ lastOp.op = "updateFile"
    /\ lastOp.node.parentDir # NoDir
    /\ lastOp.key = PathKey(lastOp.node)
    /\ \E n \in nodes : n.isDirectory /\ n.parentDir # NoDir

\* C24: addDirectory(directory) uploads one object with an empty body whose
\* key is the key derived for the directory, at the root and below it.
C24_PlaceholderAtDerivedKey ==
    lastOp.op = "addDirectory" =>
        /\ lastOp.body = 0
        /\ lastOp.sent = GetObjectKey(lastOp.node)
        /\ lastOp.sent \in objects

\* the nodes that the entries of a listing response stand for under a
\* parent: a directory per common prefix whose name is not empty, a file per
\* content key other than the prefix
NodesFor(response, prefix, parent) ==
    { Directory(SubSeq(cp, Len(prefix) + 1, Len(cp) - 1), parent) :
        cp \in { c \in SeqToSet(response.CommonPrefixes) : Len(c) > Len(prefix) + 1 } }
    \cup
    { File(Slice(k, Len(prefix)), parent) :
        k \in { c \in SeqToSet(response.Contents) : c # prefix } }

\* what a listing has returned is exactly the nodes of a response, each once,
\* with no file node for the prefix itself or for a key ending in '/'
ItemsAre(response) ==
    LET items == SeqToSet(lastOp.items) IN
    /\ items = NodesFor(response, lastOp.key, lastOp.node)
    /\ Cardinality(items) = Len(lastOp.items)
    /\ \A n \in items :
          ~n.isDirectory =>
              /\ GetObjectKey(n) # lastOp.key
              /\ ~EndsWith(GetObjectKey(n), "/")
              /\ n.name # <<>>

\* C25: a listing returns one directory per common prefix under the parent's
\* key in the bucket and one file per content key under it.
C25_ListReturnsEveryEntry ==
    lastOp.op = "list" =>
        ItemsAre(ListObjectsV2(objects, lastOp.key, Cardinality(objects) + 1))

\* C25 as the code has it: the same of the entries in the one response the
\* store gives, which holds the first entries in key order up to the store's
\* page limit; entries beyond it get no node.
C25_ListReturnsFirstPage ==
    lastOp.op = "list" =>
        /\ ItemsAre(ListObjectsV2(objects, lastOp.key, limit))
        /\ ~lastOp.truncated =>
              ItemsAre(ListObjectsV2(objects, lastOp.key, Cardinality(objects) + 1))

\* C25 witness: a directory with a placeholder object of its own has been
\* listed in full, and a directory and a file came back.
C25_Witness ==
    /\ lastOp.op = "list"
    /\ ~lastOp.truncated
    /\ lastOp.key \in objects
    /\ \E d \in SeqToSet(lastOp.items), f \in SeqToSet(lastOp.items) :
          d.isDirectory /\ ~f.isDirectory

\* C26: in a bucket that was empty, after directory docs was created with
\* addDirectory and the one file a.excalidraw.json was uploaded under it, a
\* listing of docs returns exactly one node: a file node that derives the
\* key docs/a.excalidraw.json, and no directory node.
C26_DocsListsOneFile ==
    LET docs == Directory(Docs, NoDir) IN
    (/\ lastOp.op = "list"
     /\ lastOp.node = docs
     /\ lastOp.held = {}
     /\ lastOp.puts = << <<"addDirectory", docs>>, <<"updateFile", File(AFile, docs)>> >>)
        => /\ Len(lastOp.items) = 1
           /\ ~lastOp.items[1].isDirectory
           /\ GetObjectKey(lastOp.items[1]) = Docs \o <<"/">> \o AFile

\* C26 witness: that listing of docs has just returned.
C26_Witness ==
    /\ lastOp.op = "list"
    /\ lastOp.node = Directory(Docs, NoDir)
    /\ lastOp.held = {}
    /\ lastOp.puts = << <<"addDirectory", Directory(Docs, NoDir)>>,
                        <<"updateFile", File(AFile, Directory(Docs, NoDir))>> >>
    /\ Len(lastOp.items) = 1

\* C27: the lastModified that an upload of a sync cycle carries is the
\* modification time of the version of the file whose content it carries:
\* when updateFile has stat'ed the file and goes on to send, the file it
\* stat'ed is the file that was read and the time it got is that of the
\* version that was read.
C27_StampOfContentRead ==
    [][\A c \in Cycles :
          (cyc[c].pc = "ustat" /\ cyc'[c].pc = "send") =>
              /\ cyc[c].dest = cyc[c].uri
              /\ cyc'[c].stamp = cyc[c].content]_vars

\* C28: updateFile called with no target or no bucket selected sends nothing
\* to the store and changes nothing of the connector, and returns to the
\* sync cycle, which goes on with lines 254-256 as after an upload; and
\* updateFile gets as far as its fs.stat only with both selected.
C28_PushWithoutSelectionIsNoop ==
    [][\A c \in Cycles :
          /\ (cyc[c].pc = "read" /\ ev'.op = "push_noop" /\ ev'.who = c) =>
                /\ ~HasSelection
                /\ remote' = remote
                /\ localM' = localM
                /\ currentTarget' = currentTarget
                /\ currentBucket' = currentBucket
                /\ regVars' = regVars
                /\ ~isSyncing'[cyc[c].uri]
                /\ updateTimes'[cyc[c].uri] = cyc[c].modifiedTime
                /\ cyc'[c] = Advance(cyc[c], fileWatchers, updateTimes')
          /\ (cyc[c].pc = "read" /\ cyc'[c].pc = "ustat") => HasSelection
          /\ (cyc[c].pc = "read" /\ ~HasSelection /\ cyc'[c].pc # "read"
                /\ cyc'[c].idx = cyc[c].idx /\ ev'.op # "push_noop")
                => ev'.op = "sync_fail" /\ ev'.info = {"read"}]_vars

\* C28 witness: a sync cycle has just had updateFile return without a
\* selection.
C28_Witness ==
    /\ ev.op = "push_noop"
    /\ ~HasSelection
    /\ ~isSyncing[ev.uri]

\* C29: getAndSyncLocalFilePath called with no target or no bucket selected
\* throws the no-selection error at once: the store and the local copies are
\* as before, no invocation gets inside getAndSyncLocalFilePath, no editor is
\* opened and nothing is watched; and an invocation gets to its first store
\* call only when both are selected at the call.
C29_ResolveWithoutSelectionThrowsFirst ==
    [][\A o \in Opens :
          /\ (opens[o].pc = "idle" /\ ~HasSelection /\ ev'.op = "open_fail"
                /\ ev'.who = o) =>
                /\ ev'.info = {"selection"}
                /\ remote' = remote
                /\ localM' = localM
                /\ opens' = opens
                /\ tabs' = tabs
                /\ fileWatchers' = fileWatchers
                /\ updateTimes' = updateTimes
                /\ regVars' = regVars
          /\ (opens[o].pc = "idle" /\ opens'[o].pc # "idle") =>
                /\ HasSelection
                /\ opens'[o].pc = "exists"
                /\ remote' = remote
                /\ localM' = localM
          /\ (ev'.op = "open_fail" /\ ev'.who = o /\ "selection" \in ev'.info)
                => opens[o].pc = "idle" /\ ~HasSelection]_vars

\* C29 witness: the open command has just failed for want of a selection,
\* on an item whose object is in the store.
C29_Witness ==
    /\ ev.op = "open_fail"
    /\ ev.info = {"selection"}
    /\ ~HasSelection
    /\ remote[ev.uri].exists
    /\ isSyncing[ev.uri]

\* C30: deleteFile touches the local copy only after the store has deleted
\* the object; when the DeleteObjectCommand is rejected the local copies and
\* the store are as before; and once fs.delete has been called deleteFile
\* returns normally whether it worked or not, the object staying deleted.
C30_RemoteThenLocal ==
    [][/\ (localM' # localM \/ (del'.localTouched /\ ~del.localTouched)) =>
              /\ del.pc = "local"
              /\ del.remoteDone
              /\ ~remote[del.dest].exists
              /\ \A u \in Uris \ {del.local} : localM'[u] = localM[u]
       /\ (ev'.op = "del_fail" /\ "send" \in ev'.info) =>
              /\ ~del.remoteDone
              /\ localM' = localM
              /\ remote' = remote
       /\ (del.pc = "local" /\ del' # del) =>
              /\ ev'.op = "del_done"
              /\ del'.pc = "idle"
              /\ remote' = remote
              /\ ~remote'[del.dest].exists
       /\ (ev'.op = "del_done" /\ ev'.info = {"local_failed"}) =>
              localM' = localM]_vars

\* C30 witness: fs.delete has failed on a local copy that is there, and
\* deleteFile has returned with the object gone from the store.
C30_Witness ==
    /\ ev.op = "del_done"
    /\ ev.info = {"local_failed"}
    /\ del.pc = "idle"
    /\ del.remoteDone
    /\ ~remote[del.dest].exists
    /\ localM[del.local] # Undef

\* C21: when a listing or a DeleteObject of deleteBucket is rejected, the
\* call ends with no DeleteBucket sent, the bucket still there and holding
\* some of the objects it held; no step adds an object; and a deleteBucket
\* called after a failed one sends its DeleteBucket only when every object
\* is gone, so that it ends, unless one of its own commands is rejected,
\* with the bucket emptied and removed.
C21_FailedPurgeCanBeRetried ==
    [][/\ bucket'.keys \subseteq bucket.keys
       /\ bucket.keys \subseteq bucket.held
       /\ (bucket.pc \in {"list", "delete"} /\ bucket'.pc = "failed") =>
              /\ bucket'.dropped = 0
              /\ bucket'.exists
              /\ bucket'.failedAt = bucket.pc
       /\ (bucket.pc = "failed" /\ bucket'.pc = "confirm") => bucket.exists
       /\ bucket'.retry =>
              /\ bucket'.pc = "drop" => bucket'.keys = {}
              /\ bucket'.pc = "failed" => bucket'.failedAt \in {"list", "delete", "drop"}
              /\ (bucket.pc = "drop" /\ bucket'.pc = "failed") => bucket'.dropped = 1
              /\ bucket'.pc = "done" => (bucket'.keys = {} /\ ~bucket'.exists)
              /\ (bucket.pc = "drop" /\ bucket' # bucket /\ bucket'.failedAt = "") =>
                     bucket'.pc = "done"]_vars

\* C21 witness: a deleteBucket that failed after deleting some of the
\* objects, and a second one that removed the rest and the bucket.
C21_Witness ==
    /\ bucket.retry
    /\ bucket.pc = "done"
    /\ bucket.n > 0
    /\ bucket.n < Cardinality(bucket.held)
    /\ bucket.keys = {}
    /\ ~bucket.exists

\* C31: getBuckets called with no current target ends in the
\* no-target-selected failure, and sends nothing to the store: no connection
\* is built and no credential is read for it.
C31_BucketsWithoutTargetFails ==
    [][(currentTarget = Unselected /\ ev'.op = "buckets") =>
          /\ "NoTargetSelected" \in ev'.info
          /\ clients' = clients
          /\ verP' = verP
          /\ settings' = settings]_vars

\* C32: a version of a watched file that the editor saved and that no
\* upload has carried yet is uploaded in the end, to the object the file
\* was opened from, when the timers keep firing and every call succeeds.
C32_EditsEventuallyPushed ==
    (localM[PushUri] # Undef /\ pushCount[PushUri] = 0)
        ~> (pushCount[PushUri] > 0)

\* C33: an upload that a sync cycle makes for a watched file goes to the
\* object of the target and bucket the file was opened under, that is, to
\* the object its watched uri names.
C33_PushGoesWhereOpened ==
    [][\A c \in Cycles :
          (cyc[c].pc = "send" /\ ev'.op = "pushed" /\ ev'.who = c) =>
              /\ cyc[c].dest = cyc[c].uri
              /\ remote'[cyc[c].uri] = UploadedObject(cyc[c].stamp)
              /\ \A u \in Uris \ {cyc[c].uri} : remote'[u] = remote[u]]_vars

\* C34: the time recorded in _updateTimes for a uri never goes back: when
\* an entry is written over, the new time is not earlier than the old one.
C34_UpdateTimeNeverDecreases ==
    [][\A u \in Uris :
          (updateTimes[u] # Undef /\ updateTimes'[u] # Undef) =>
              updateTimes'[u] >= updateTimes[u]]_vars

\* C35: while no sync callback and no open command is suspended, the uris
\* that have an entry in _updateTimes are exactly the uris watched in
\* _fileWatchers.
C35_TimesOnlyForWatched ==
    ((\A c \in Cycles : cyc[c].pc = "idle") /\ (\A o \in Opens : opens[o].pc = "idle"))
        => { u \in Uris : updateTimes[u] # Undef } = SeqToSet(fileWatchers)

\* C36: every S3Client in the clients map was built from credentials with a
\* non-empty access key, secret key and host.
C36_CachedClientsComplete ==
    \A n \in Names :
        clients[n] # NoClient => \A f \in Fields : clients[n][f] # ""

\* C37: once the store has deleted the object of a file that is still
\* watched, no sync cycle puts an object under that key again.
C37_NoUploadAfterDelete ==
    [][\A c \in Cycles :
          ~ /\ del.remoteDone
            /\ del.dest \in SeqToSet(fileWatchers)
            /\ cyc[c].pc = "send"
            /\ cyc[c].dest = del.dest
            /\ ~remote[del.dest].exists
            /\ remote'[del.dest].exists]_vars

\* C38: when deleteBucket is about to send its DeleteBucket command, the
\* bucket holds no object.
C38_EmptyAtBucketDelete ==
    bucket.pc = "drop" => bucket.keys = {}

\* C39: no name is twice in the persisted target list.
C39_PersistedNamesDistinct ==
    \A i \in 1..Len(persisted), j \in 1..Len(persisted) :
        persisted[i] = persisted[j] => i = j

\* C40: while no addTarget is waiting on its prompt or its stores, the
\* current target is none or a name of the persisted list, and it is none
\* only when that list is empty.
C40_CurrentTargetIsListed ==
    addP.pc = "idle" =>
        /\ currentTarget # Unselected =>
              \E i \in 1..Len(persisted) : persisted[i] = currentTarget
        /\ currentTarget = Unselected => persisted = <<>>

====
